---- MODULE Spec2Model ----
(***************************************************************************)
(* Stream Deck / Sonos podcast player: the dial handlers, their debounce   *)
(* timers, the pending display values, the playback info cache and the     *)
(* touchscreen repaint.                                                    *)
(*                                                                         *)
(* The control thread runs on_dial_change and the main loop; every         *)
(* threading.Timer runs its apply_* callback on a thread of its own, one   *)
(* statement group at a time, interleaved with the control thread.         *)
(***************************************************************************)
EXTENDS Integers, Naturals, Sequences, FiniteSets, TLC

VARIABLES
    pending_volume,          \* streamdeck_handlers.pending_volume
    pending_scrub_position,  \* streamdeck_handlers.pending_scrub_position
    pending_episode_index,   \* streamdeck_handlers.pending_episode_index
    pending_episode_slug,    \* streamdeck_handlers.pending_episode_slug
    debounce_timer,          \* the four *_debounce_timer globals: axis -> index into timers, 0 = None
    timers,                  \* every threading.Timer created so far, with its callback's progress
    volume,                  \* speaker.volume on the device
    dev,                     \* the track the device plays: uri, position, duration, state
    cached_playback_info,    \* sonos_control.cached_playback_info
    fresh,                   \* time.time() - last_playback_fetch < 1.0
    library,                 \* slug -> result of list_podcast_files
    podcast_state,           \* PODCAST_STATE
    episode_positions,       \* EPISODE_POSITIONS: uri -> offset, None where the dict has no key
    db,                      \* table episode_positions: uri -> offset, None where it has no row
    feed_dir,                \* podcasts/<slug>: whether it exists, and os.listdir of it
    mtime,                   \* os.path.getmtime of each file
    episode_metadata,        \* the database file and its table episode_metadata
    listing,                 \* what the last call of list_podcast_files returned
    fetch,                   \* fetch_podcasts.py: its configuration, the RSS feed, the clock
    podcasts,                \* a run of main: the feeds of PODCASTS, their directories and rows
    dial_debounce_seconds,   \* DIAL_DEBOUNCE_SECONDS
    dials,                   \* the dials the user turns in this behaviour
    tracks,                  \* the states the device is found in, or moves to on its own
    turned,                  \* the volume the turns of dial 0 so far add up to
    refresh,                 \* the clock, last_playback_fetch and the threads inside get_playback_info
    deck,                    \* the brightness of the deck and current_brightness_ref[0]
    trace                    \* the effects of the last program step, in program order

vars == <<pending_volume, pending_scrub_position, pending_episode_index,
          pending_episode_slug, debounce_timer, timers, volume, dev,
          cached_playback_info, fresh, library, podcast_state,
          episode_positions, db, feed_dir, mtime, episode_metadata, listing, fetch,
          podcasts, dial_debounce_seconds, dials, tracks, turned, refresh, deck, trace>>

----------------------------------------------------------------------------
(* Bounds and domains *)

\* Python's None for the Optional[int] globals
None == -1

NoSlug == ""

\* number of threading.Timer objects a behaviour may create
MaxTimers == 2

\* seconds of seek per dial increment
ScrubStep == 5

Axes == {"volume", "seek", "episode", "skip"}

\* the five timer globals: the four above and state_refresh_timer
TimerGlobals == Axes \cup {"state"}

\* PODCASTS: the configured feeds
Podcasts == {"news"}

VolumeDeltas == {-10, 0, 10}

\* streamdeck.brightness of the configuration, 0-100
BRIGHTNESS == 50

\* brightness per dial increment
BrightnessStep == 5

\* slow and fast turns of the volume, the seek and the brightness dial
WideVolumeDeltas == {-110, -10, 10, 110}
SeekDeltas == {-3, -1, 1, 3}
BrightnessDeltas == {-25, -1, 1, 25}

\* offsets handed to the persistence functions: 3725 s is 1:02:05
SavedOffsets == {-5, 0, 5, 3725}
TurnDeltas == {-1, 0, 1}

\* the same and a faster turn, for the dial that skips tracks
SkipDeltas == TurnDeltas \cup {-2, 2}
InitVolumes == {10, 50, 100}
DelayChoices == {0, 1}

EpisodeFiles == <<"e2.mp3", "e1.mp3">>
Libraries == {<<>>, EpisodeFiles}

\* the sets of dials a behaviour may use
DialSets == {{0}, {1}, {2}}

\* all the debounced dials in use together
AllDials == {{0, 1, 2}}

Min(a, b) == IF a < b THEN a ELSE b
Max(a, b) == IF a > b THEN a ELSE b

----------------------------------------------------------------------------
(* URIs are sequences of path segments *)

EmptyUri == <<>>
SpotifyUri == <<"x-sonos-spotify", "track">>
\* f"http://{ip}:{http_port}/{rel}" with rel = podcasts/<slug>/<file>
EpisodeUrl(slug, file) == <<"http", "podcasts", slug, file>>

\* f"http://{ip}:{http_port}/{rel}" of the loop button's audio file
LoopUrl == <<"http", "loops", "loop.mp3">>

Uris == {EmptyUri, SpotifyUri, LoopUrl}
          \cup {EpisodeUrl(s, EpisodeFiles[i]) : s \in Podcasts, i \in 1..Len(EpisodeFiles)}

\* an empty dict, an empty table
NoPositions == [u \in Uris |-> None]

HasSegment(uri, seg) == \E i \in 1..Len(uri) : uri[i] = seg

\* "spotify" in uri.lower()
is_spotify_uri(uri) ==
    uri # EmptyUri /\ (HasSegment(uri, "x-sonos-spotify") \/ HasSegment(uri, "spotify"))

\* the slug after /podcasts/ when it is a configured feed, else None
detect_podcast_uri(uri) ==
    IF uri = EmptyUri THEN NoSlug
    ELSE IF \E i \in 1..(Len(uri) - 1) : uri[i] = "podcasts" /\ uri[i + 1] \in Podcasts
         THEN uri[(CHOOSE i \in 1..(Len(uri) - 1) : uri[i] = "podcasts" /\ uri[i + 1] \in Podcasts) + 1]
         ELSE NoSlug

\* mutant: the minutes are not reduced modulo the hour
FormatHMS_WholeMinutes(s) == <<s \div 3600, s \div 60, s % 60>>

\* f"{hours:01d}:{mins:02d}:{secs:02d}"
FormatHMS(s) == <<s \div 3600, (s % 3600) \div 60, s % 60>>

\* parse_time for a three-part string
parse_time(t) == t[1] * 3600 + t[2] * 60 + t[3]

StoppedDev == [uri |-> EmptyUri, position |-> 0, duration |-> 0, state |-> "STOPPED"]

PlayingDev(u, p) == [uri |-> u, position |-> p, duration |-> 2 * ScrubStep, state |-> "PLAYING"]

\* the device plays nothing or Spotify, or nothing or a local episode
SpotifyTracks == {StoppedDev, PlayingDev(SpotifyUri, 0)}
PodcastTracks ==
    {StoppedDev} \cup {PlayingDev(EpisodeUrl(s, EpisodeFiles[i]), 0) :
                          s \in Podcasts, i \in 1..Len(EpisodeFiles)}

\* a Spotify track and a local episode, both of known length
AxesTracks == {PlayingDev(SpotifyUri, 0), PlayingDev(EpisodeUrl("news", EpisodeFiles[1]), 0)}

\* the same, and the episode some seconds in
KeysTracks == AxesTracks \cup {PlayingDev(EpisodeUrl("news", EpisodeFiles[1]), ScrubStep)}

\* the same, and the loop paused
ButtonsTracks ==
    KeysTracks \cup {[uri |-> LoopUrl, position |-> 0, duration |-> 2 * ScrubStep,
                      state |-> "PAUSED_PLAYBACK"]}

\* the tracks that matter to the dials in use
TrackSets(d) ==
    IF d = {1, 2} THEN {KeysTracks, ButtonsTracks}
    ELSE IF Cardinality(d) > 1 THEN {AxesTracks}
    ELSE IF 2 \in d THEN {SpotifyTracks, PodcastTracks}
    ELSE IF 1 \in d THEN {SpotifyTracks}
    ELSE {{StoppedDev}}

\* cached_playback_info at import time
InitCache == [position |-> 0, duration |-> 0, state |-> "STOPPED", uri |-> EmptyUri]

\* what the device answers to get_current_track_info / get_current_transport_info,
\* the times going through their H:MM:SS strings
QueryDevice(d) ==
    [position |-> parse_time(FormatHMS(d.position)),
     duration |-> parse_time(FormatHMS(d.duration)),
     state |-> d.state,
     uri |-> d.uri]

----------------------------------------------------------------------------
(* The episode files of one feed and list_podcast_files.  A date is a day   *)
(* number, an ISO string the sequence of its fields: <<day>> for            *)
(* YYYY-MM-DD, <<day, time>> for YYYY-MM-DDTHH:MM:SS, <<>> for "" or NULL;  *)
(* strings of this shape compare as these sequences do.                     *)

\* f"{date_prefix}-{slugify(title)}.mp3" of the episode published on a day
EpisodeName(day) ==
    CASE day = 1 -> "2024-01-01-a.mp3"
      [] day = 2 -> "2024-01-02-c.mp3"
      [] OTHER -> "2024-01-03-d.mp3"

PublicationDays == {1, 2, 3}

Mp3Names == {EpisodeName(day) : day \in PublicationDays} \cup {"b.mp3"}
Names == Mp3Names \cup {"notes.txt"}

\* the files the catalog is tried on
CatalogNames == {"2024-01-01-a.mp3", "b.mp3", "notes.txt"}

\* f.lower().endswith(".mp3")
is_mp3(name) == name \in Mp3Names

\* basename[:10] when "len(basename) >= 10 and basename[:10].replace("-", "").isdigit()"
name_prefix(name) ==
    IF \E day \in PublicationDays : name = EpisodeName(day)
    THEN <<CHOOSE day \in PublicationDays : name = EpisodeName(day)>>
    ELSE <<>>

Days == {1, 2}
Times == {0, 1}
Mtimes == {2, 3, 5}

\* time.strftime("%Y-%m-%dT%H:%M:%S", time.localtime(mtime)), two ticks a day
iso_of_mtime(t) == <<t \div 2, t % 2>>

NoRow ==
    [present |-> FALSE, title |-> 0, description |-> 0,
     publication_datetime |-> <<>>, publication_date |-> <<>>]

\* the rows a file may have in episode_metadata
Rows ==
    {NoRow, [NoRow EXCEPT !.present = TRUE]}
       \cup {[NoRow EXCEPT !.present = TRUE, !.publication_date = <<d>>] : d \in Days}
       \cup {[NoRow EXCEPT !.present = TRUE, !.publication_datetime = <<d, t>>,
                            !.publication_date = <<d>>] : d \in Days, t \in Times}

\* the orders os.listdir may give the files of a directory
RECURSIVE Orders(_)
Orders(S) ==
    IF S = {} THEN {<<>>}
    ELSE UNION {{<<x>> \o rest : rest \in Orders(S \ {x})} : x \in S}

Listdirs(names) == UNION {Orders(S) : S \in SUBSET names}

NotListed == [done |-> FALSE, files |-> <<>>]

\* a <= b for two strings
LexLeq(a, b) ==
    \E k \in 0..Min(Len(a), Len(b)) :
       /\ \A i \in 1..k : a[i] = b[i]
       /\ k = Len(a) \/ (k < Len(b) /\ a[k + 1] < b[k + 1])

\* mutant: the list is left in the order it came in
sort_reverse_Unsorted(items) == items

\* list.sort(key=..., reverse=True) on items [file, key]: descending, items
\* of equal key in the order they had
RECURSIVE sort_reverse(_)
RECURSIVE spotify_calls(_, _, _)
sort_reverse(items) ==
    IF items = <<>> THEN <<>>
    ELSE LET rest == sort_reverse(SubSeq(items, 1, Len(items) - 1))
             x == items[Len(items)]
             n == Cardinality({i \in 1..Len(rest) : LexLeq(x.key, rest[i].key)})
         IN  SubSeq(rest, 1, n) \o <<x>> \o SubSeq(rest, n + 1, Len(rest))

FilesOf(items) == [i \in 1..Len(items) |-> items[i].file]

\* the value list_podcast_files puts in file_datetimes for a file
order_key(name) ==
    LET result == episode_metadata.rows[name]
    IN  IF result.present /\ result.publication_datetime # <<>> THEN result.publication_datetime
        ELSE IF result.present /\ result.publication_date # <<>> THEN result.publication_date
        ELSE IF name_prefix(name) # <<>> THEN name_prefix(name)
        ELSE iso_of_mtime(mtime[name])

\* file_datetimes.get(f, ""): the dict stays empty when the database file is missing
file_datetimes(name) == IF episode_metadata.state = "ok" THEN order_key(name) ELSE <<>>

\* mutant: the except branch returns the files as listed
fallback_files_Unsorted(files) == files

\* the except branch: files.sort(key=os.path.getmtime, reverse=True)
fallback_files(files) ==
    FilesOf(sort_reverse([i \in 1..Len(files) |-> [file |-> files[i], key |-> <<mtime[files[i]]>>]]))

list_podcast_files ==
    LET files == SelectSeq(feed_dir.files, is_mp3)
    IN  IF ~feed_dir.exists THEN <<>>
        ELSE IF episode_metadata.state = "raises" THEN fallback_files(files)
        ELSE FilesOf(sort_reverse([i \in 1..Len(files) |->
                                     [file |-> files[i], key |-> file_datetimes(files[i])]]))

Feed == <<feed_dir, mtime, episode_metadata, listing, fetch, podcasts>>

Player == <<pending_volume, pending_scrub_position, pending_episode_index,
            pending_episode_slug, debounce_timer, timers, volume, dev,
            cached_playback_info, fresh, library, podcast_state,
            episode_positions, db, dial_debounce_seconds, dials, tracks, turned, refresh, deck, trace>>

\* a call of list_podcast_files
ListPodcastFiles ==
    /\ ~listing.done
    /\ listing' = [done |-> TRUE, files |-> list_podcast_files]
    /\ UNCHANGED <<feed_dir, mtime, episode_metadata, fetch, podcasts, Player>>

----------------------------------------------------------------------------
(* fetch_podcasts.py: download the newest entries of the feed, then prune *)

\* EPISODES_TO_KEEP and EPISODES_TO_DOWNLOAD as configured
KeepCounts == {0, 1, 2, 3}
DownloadCounts == {1, 2, 3}

\* the clock stops here
MaxClock == 6

\* keep, download: the configuration; published: the days whose episode the
\* RSS feed has; clock: the time; cleaned: cleanup_old_episodes has run since
\* the feed last changed; removed: what it deleted
NoFetch ==
    [keep |-> 0, download |-> 1, published |-> 0, clock |-> 0,
     cleaned |-> FALSE, removed |-> <<>>, content |-> [n \in Names |-> ""]]

\* f.endswith(".mp3") of cleanup_old_episodes
ends_with_mp3(name) == name \in Mp3Names

Without(files, gone) == SelectSeq(files, LAMBDA n : \A i \in 1..Len(gone) : gone[i] # n)

\* mutant: the files are not sorted before the slice
old_episodes_Unsorted(dir, times, keep) ==
    LET files == SelectSeq(dir.files, ends_with_mp3)
    IN  SubSeq(files, keep + 1, Len(files))

\* files[EPISODES_TO_KEEP:] of the files sorted by getmtime, newest first
old_episodes(dir, times, keep) ==
    LET files == SelectSeq(dir.files, ends_with_mp3)
        sorted == FilesOf(sort_reverse([i \in 1..Len(files) |->
                                           [file |-> files[i], key |-> <<times[files[i]]>>]]))
    IN  SubSeq(sorted, keep + 1, Len(sorted))

\* cleanup_old_episodes(slug)
cleanup_old_episodes(dir, times, keep) ==
    IF ~dir.exists THEN dir
    ELSE [dir EXCEPT !.files = Without(@, old_episodes(dir, times, keep))]

removed_by(dir, times, keep) ==
    IF dir.exists THEN old_episodes(dir, times, keep) ELSE <<>>

CleanupOldEpisodes ==
    /\ ~fetch.cleaned
    /\ feed_dir' = cleanup_old_episodes(feed_dir, mtime, fetch.keep)
    /\ fetch' = [fetch EXCEPT !.cleaned = TRUE,
                              !.removed = removed_by(feed_dir, mtime, fetch.keep)]
    /\ UNCHANGED <<mtime, episode_metadata, listing, podcasts, Player>>

\* feed.entries[:EPISODES_TO_DOWNLOAD]: the days published, newest first
RECURSIVE Entries(_, _)
Entries(published, count) ==
    IF published = 0 \/ count = 0 THEN <<>>
    ELSE <<published>> \o Entries(published - 1, count - 1)

\* what requests.get and the transfer of the audio can do
Outcomes == {"ok", "http_error", "transfer_error"}

\* an entry of feedparser.parse(rss).entries with an audio enclosure, and
\* one without
Entry(day) == [day |-> day, audio |-> TRUE, description |-> 2]
TextEntry(day) == [Entry(day) EXCEPT !.audio = FALSE]

\* the content of a file: written by an earlier run, a whole download, or
\* the chunks that arrived before the transfer broke
Contents == {"existing", "audio", "partial"}

Note(st, ev, file) == [st EXCEPT !.log = Append(@, [ev |-> ev, file |-> file])]

\* save_episode_metadata: INSERT OR REPLACE of file_path, title, description;
\* the columns it does not name get their default, NULL; an sqlite error is
\* printed and swallowed
save_episode_metadata(st, name, title, description) ==
    IF ~st.db_ok THEN st
    ELSE [st EXCEPT !.rows[name] = [NoRow EXCEPT !.present = TRUE, !.title = title,
                                                 !.description = description]]

\* the part of download_episode after "if os.path.exists(dest): return"
fetch_audio(st, name, outcome) ==
    LET asked == Note(st, "get", name)
        opened == [asked EXCEPT !.dir.files = Append(@, name),
                                !.times[name] = st.clock,
                                !.clock = @ + 1]
    IN  CASE outcome = "http_error" -> [Note(asked, "raise", name) EXCEPT !.raised = TRUE]
          [] outcome = "transfer_error" ->
                 [Note([opened EXCEPT !.content[name] = "partial"], "raise", name)
                      EXCEPT !.raised = TRUE]
          [] OTHER -> [opened EXCEPT !.content[name] = "audio"]

\* mutant: a file that is there is fetched again
download_episode_Overwrites(st, entry, outcome) ==
    IF ~entry.audio THEN st
    ELSE LET name == EpisodeName(entry.day)
             made == [st EXCEPT !.dir.exists = TRUE,
                                !.dir.files = Without(@, <<name>>)]
         IN  fetch_audio(save_episode_metadata(made, name, entry.day, entry.description),
                         name, outcome)

\* download_episode(slug, entry); raised: it ends by raising to its caller
download_episode(st, entry, outcome) ==
    IF ~entry.audio THEN st
    ELSE LET name == EpisodeName(entry.day)
             made == [st EXCEPT !.dir.exists = TRUE]
             saved == save_episode_metadata(made, name, entry.day, entry.description)
         IN  IF \E i \in 1..Len(st.dir.files) : st.dir.files[i] = name THEN saved
             ELSE fetch_audio(saved, name, outcome)

RECURSIVE download_all(_, _, _)

\* mutant: the first error ends the loop over the entries
download_all_StopsAtError(st, entries, outcomes) ==
    IF entries = <<>> THEN st
    ELSE LET done == download_episode([st EXCEPT !.raised = FALSE], entries[1],
                                      outcomes[entries[1].day])
         IN  IF done.raised THEN done
             ELSE download_all(done, Tail(entries), outcomes)

\* main: for entry in feed.entries[:EPISODES_TO_DOWNLOAD], with the
\* exception of download_episode caught and printed
download_all(st, entries, outcomes) ==
    IF entries = <<>> THEN st
    ELSE LET done == download_episode([st EXCEPT !.raised = FALSE], entries[1],
                                      outcomes[entries[1].day])
             caught == IF done.raised
                       THEN Note([done EXCEPT !.raised = FALSE], "caught", EpisodeName(entries[1].day))
                       ELSE done
         IN  download_all(caught, Tail(entries), outcomes)

\* the entries of the days, all with an audio enclosure
Audio(days) == [i \in 1..Len(days) |-> Entry(days[i])]

\* main's loop body for one feed: the downloads, then the cleanup
fetch_feed(st, slug, entries, outcomes, keep) ==
    LET got == download_all(st, entries, outcomes)
    IN  [Note(got, "cleanup", slug) EXCEPT
            !.dir = cleanup_old_episodes(got.dir, got.times, keep),
            !.removed = removed_by(got.dir, got.times, keep)]

FetchCycle(outcomes) ==
    LET st0 == [dir |-> feed_dir, times |-> mtime, content |-> fetch.content,
                rows |-> episode_metadata.rows, clock |-> fetch.clock, db_ok |-> TRUE,
                raised |-> FALSE, removed |-> <<>>, log |-> <<>>]
    IN  \E st \in {fetch_feed(st0, "news", Audio(Entries(fetch.published, fetch.download)),
                               outcomes, fetch.keep)} :
           /\ st.clock <= MaxClock
           /\ feed_dir' = st.dir
           /\ mtime' = st.times
           /\ episode_metadata' = [episode_metadata EXCEPT !.rows = st.rows]
           /\ fetch' = [fetch EXCEPT !.clock = st.clock,
                                     !.content = st.content,
                                     !.cleaned = TRUE,
                                     !.removed = st.removed]
           /\ UNCHANGED <<listing, podcasts, Player>>

\* PODCASTS.items(): the feeds in the order of the configuration
FeedSlugs == <<"news", "tech">>
FeedSet == {FeedSlugs[i] : i \in 1..Len(FeedSlugs)}

\* feedparser.parse(rss).entries, newest first
FeedEntries ==
    {<<>>, <<Entry(1)>>, <<TextEntry(1)>>, <<Entry(2), Entry(1)>>, <<TextEntry(2), Entry(1)>>}

\* the two episodes main meets in a feed
RunDays == {1, 2}
RunNames == {EpisodeName(day) : day \in RunDays}

NoFeed ==
    [dir |-> [exists |-> FALSE, files |-> <<>>], times |-> [n \in Names |-> 0],
     content |-> [n \in Names |-> ""], rows |-> [n \in Names |-> NoRow],
     removed |-> <<>>, log |-> <<>>]

\* ran: main has run; rss: what the feeds hold; outcomes: how the requests
\* of the run went; visited: the feeds main got to, in order
NoPodcasts ==
    [ran |-> FALSE, rss |-> [slug \in FeedSet |-> <<>>],
     feeds |-> [slug \in FeedSet |-> NoFeed],
     outcomes |-> [slug \in FeedSet |-> [day \in RunDays |-> "ok"]],
     db_ok |-> TRUE, clock |-> 0, visited |-> <<>>]

First(entries, count) == SubSeq(entries, 1, IF count < Len(entries) THEN count ELSE Len(entries))

\* main: the loop over PODCASTS.items()
RECURSIVE main(_, _, _, _)
main(w, slugs, download, keep) ==
    IF slugs = <<>> THEN w
    ELSE LET slug == slugs[1]
             f == w.feeds[slug]
             st0 == [dir |-> f.dir, times |-> f.times, content |-> f.content,
                     rows |-> f.rows, clock |-> w.clock, db_ok |-> w.db_ok,
                     raised |-> FALSE, removed |-> <<>>, log |-> <<>>]
             st == fetch_feed(st0, slug, First(w.rss[slug], download), w.outcomes[slug], keep)
             w1 == [w EXCEPT !.feeds[slug] = [dir |-> st.dir, times |-> st.times,
                                              content |-> st.content, rows |-> st.rows,
                                              removed |-> st.removed, log |-> st.log],
                             !.clock = st.clock,
                             !.visited = Append(@, slug)]
         IN  main(w1, Tail(slugs), download, keep)

Main(outcomes, db_ok) ==
    /\ ~podcasts.ran
    /\ podcasts' = main([podcasts EXCEPT !.ran = TRUE, !.outcomes = outcomes, !.db_ok = db_ok],
                        FeedSlugs, fetch.download, fetch.keep)
    /\ UNCHANGED <<feed_dir, mtime, episode_metadata, listing, fetch, Player>>

\* the podcast publishes its next episode
Publish ==
    /\ fetch.published + 1 \in PublicationDays
    /\ fetch' = [fetch EXCEPT !.published = @ + 1, !.cleaned = FALSE, !.removed = <<>>]
    /\ UNCHANGED <<feed_dir, mtime, episode_metadata, listing, podcasts, Player>>

----------------------------------------------------------------------------
(* The mutable program and device state the handlers and callbacks work on *)

\* online: whether the speaker answers the calls of this step or raises;
\* db_ok: whether sqlite does
Mem(online) ==
    [online |-> online,
     db_ok |-> TRUE,
     pending_volume |-> pending_volume,
     pending_scrub_position |-> pending_scrub_position,
     pending_episode_index |-> pending_episode_index,
     pending_episode_slug |-> pending_episode_slug,
     volume |-> volume,
     dev |-> dev,
     cache |-> cached_playback_info,
     fresh |-> fresh,
     episode_positions |-> episode_positions,
     db |-> db,
     queried |-> 0,
     trace |-> <<>>]

Commit(m) ==
    /\ pending_volume' = m.pending_volume
    /\ pending_scrub_position' = m.pending_scrub_position
    /\ pending_episode_index' = m.pending_episode_index
    /\ pending_episode_slug' = m.pending_episode_slug
    /\ volume' = m.volume
    /\ dev' = m.dev
    /\ cached_playback_info' = m.cache
    /\ fresh' = m.fresh
    /\ episode_positions' = m.episode_positions
    /\ db' = m.db
    /\ trace' = m.trace

Ev(e, a, v) == [ev |-> e, axis |-> a, val |-> v]

Emit(m, e, a, v) == [m EXCEPT !.trace = Append(@, Ev(e, a, v))]

\* mutant: a recent cache is returned to a forced call too
get_playback_info_ForceIgnored(m, force_refresh) ==
    IF m.fresh THEN m
    ELSE IF m.online
         THEN [m EXCEPT !.cache = QueryDevice(m.dev), !.fresh = TRUE, !.queried = @ + 1]
         ELSE [m EXCEPT !.queried = @ + 1]

\* get_playback_info(speaker, force_refresh): the cache when recent and not
\* forced, else the device's answer; the cache again when the device raises.
\* queried counts the calls of speaker.get_current_track_info in the step
get_playback_info(m, force_refresh) ==
    IF ~force_refresh /\ m.fresh THEN m
    ELSE IF m.online
         THEN [m EXCEPT !.cache = QueryDevice(m.dev), !.fresh = TRUE, !.queried = @ + 1]
         ELSE [m EXCEPT !.queried = @ + 1]

\* the forced refresh the callbacks and the main loop ask for
force_refresh(m) == Emit(get_playback_info(m, TRUE), "refresh", "cache", 0)

is_spotify_playing(m) == is_spotify_uri(m.cache.uri)

detect_current_podcast(m) == detect_podcast_uri(m.cache.uri)

\* mutant: "if pending:" in place of "if pending is not None"
effective_value_Truthy(pending, confirmed) ==
    IF pending # None /\ pending # 0 THEN pending ELSE confirmed

\* the value drawn where a pending value may override a confirmed one
effective_value(pending, confirmed) == IF pending # None THEN pending ELSE confirmed

\* max(0, min(100, int(volume)))
vol_pct(v) == Max(0, Min(100, v))

\* update_touchscreen_ui, as make_update_ui_func calls it: the volume bar from
\* pending_volume or speaker.volume (left blank when that read raises), the
\* position from pending_scrub_position or get_playback_info()
update_ui(m) ==
    LET read == IF m.online THEN m.volume ELSE None
        shown == effective_value(m.pending_volume, read)
        drawn == IF shown = None THEN None ELSE vol_pct(shown)
        m1 == get_playback_info(m, FALSE)
        pos == effective_value(m.pending_scrub_position, m1.cache.position)
    IN  Emit(IF drawn = None THEN Emit(m1, "blank", "volume", 0)
                               ELSE Emit(m1, "paint", "volume", drawn),
             "paint", "position", pos)

----------------------------------------------------------------------------
(* get_playback_info as the threads run it: the main loop, the Timer        *)
(* callbacks and the deck's callbacks call it with no lock, and a call      *)
(* gives way at each of its two speaker queries.                            *)

\* main's loop and a callback thread
Threads == {"loop", "callback"}

\* the clock stops here
MaxNow == 2

\* the speaker is asked for its track this often
MaxQueries == 3

\* the part of the answer of get_current_track_info that is kept
TrackInfo(d) ==
    [uri |-> QueryDevice(d).uri, position |-> QueryDevice(d).position,
     duration |-> QueryDevice(d).duration]

\* a thread outside get_playback_info; inside, pc is the statement it is at,
\* current_time, track_info and state are its locals, query the number of
\* its get_current_track_info among all so far
NoCall ==
    [pc |-> "idle", force |-> FALSE, current_time |-> 0, track_info |-> TrackInfo(StoppedDev),
     state |-> "STOPPED", query |-> 0]

\* now: time.time(); queries: the track queries so far; cached: the number
\* of the query whose answer is in cached_playback_info
NoRefresh ==
    [now |-> 1, last_playback_fetch |-> 0, queries |-> 0, cached |-> 0,
     calls |-> [th \in Threads |-> NoCall]]

\* "return cached_playback_info"
Returned(s, th) ==
    [s EXCEPT !.r.calls[th] = NoCall,
              !.trace = Append(@, Ev("return", "cache", s.r.cached))]

\* "except Exception: return cached_playback_info"
Raised(s, th) == Returned(Emit(s, "raise", "cache", s.r.calls[th].query), th)

\* the entry of get_playback_info: current_time = time.time() and the test
\* of the cache's age
enter_get_playback_info(s, th, force) ==
    IF ~force /\ (s.r.now - s.r.last_playback_fetch) < 1 THEN Returned(s, th)
    ELSE [s EXCEPT !.r.calls[th] = [NoCall EXCEPT !.pc = "track", !.force = force,
                                                  !.current_time = s.r.now]]

\* mutant: the track goes into the cache as soon as the speaker has answered
get_playback_info_thread_WritesThrough(s, th, online) ==
    LET call == s.r.calls[th]
    IN  CASE call.pc = "track" ->
               IF online
               THEN [s EXCEPT !.r.queries = @ + 1,
                              !.cache = [@ EXCEPT !.uri = TrackInfo(s.dev).uri,
                                                  !.position = TrackInfo(s.dev).position,
                                                  !.duration = TrackInfo(s.dev).duration],
                              !.r.calls[th] = [call EXCEPT !.pc = "transport",
                                                           !.track_info = TrackInfo(s.dev),
                                                           !.query = s.r.queries + 1]]
               ELSE Raised(s, th)
          [] call.pc = "transport" ->
               IF online
               THEN [s EXCEPT !.r.calls[th] = [call EXCEPT !.pc = "write",
                                                           !.state = QueryDevice(s.dev).state]]
               ELSE Raised(s, th)
          [] call.pc = "write" ->
               [s EXCEPT !.cache = [position |-> call.track_info.position,
                                    duration |-> call.track_info.duration,
                                    state |-> call.state,
                                    uri |-> call.track_info.uri],
                         !.r.cached = call.query,
                         !.r.calls[th].pc = "stamp"]
          [] OTHER ->
               Returned([s EXCEPT !.r.last_playback_fetch = call.current_time], th)

\* the try block of get_playback_info, a statement that can give way at a
\* time: get_current_track_info, get_current_transport_info, the assignment
\* of cached_playback_info, the assignment of last_playback_fetch and the
\* return
get_playback_info_thread(s, th, online) ==
    LET call == s.r.calls[th]
    IN  CASE call.pc = "track" ->
               IF online
               THEN [s EXCEPT !.r.queries = @ + 1,
                              !.r.calls[th] = [call EXCEPT !.pc = "transport",
                                                           !.track_info = TrackInfo(s.dev),
                                                           !.query = s.r.queries + 1]]
               ELSE Raised(s, th)
          [] call.pc = "transport" ->
               IF online
               THEN [s EXCEPT !.r.calls[th] = [call EXCEPT !.pc = "write",
                                                           !.state = QueryDevice(s.dev).state]]
               ELSE Raised(s, th)
          [] call.pc = "write" ->
               [s EXCEPT !.cache = [position |-> call.track_info.position,
                                    duration |-> call.track_info.duration,
                                    state |-> call.state,
                                    uri |-> call.track_info.uri],
                         !.r.cached = call.query,
                         !.r.calls[th].pc = "stamp"]
          [] OTHER ->
               Returned([s EXCEPT !.r.last_playback_fetch = call.current_time], th)

----------------------------------------------------------------------------
(* The delayed actions.  A timer's callback runs in the steps                *)
(*   call -> [refresh] -> clear -> [refresh] -> paint -> done              *)
(* as its apply_* function orders them.                                    *)

NewTimer(axis, val, slug, st) ==
    [axis |-> axis, val |-> val, slug |-> slug, st |-> st, pc |-> "call",
     issued |-> FALSE, err |-> FALSE, log |-> <<>>]

\* a Timer object that will run nothing more: its arguments are garbage
Dropped(t, st) == [t EXCEPT !.st = st, !.val = 0, !.slug = NoSlug]

\* what a finished callback did stays on record until the next step only
Forgotten(t) ==
    IF t.st \in {"cancelled", "finished"}
    THEN [t EXCEPT !.pc = "done", !.issued = FALSE, !.err = FALSE, !.log = <<>>]
    ELSE t

Settled(ts) == [i \in DOMAIN ts |-> Forgotten(ts[i])]

Advance(t, label, pc) == [t EXCEPT !.pc = pc, !.log = Append(@, label)]

\* mutant: the "position <= 0" test is missing
save_position_to_db_AnyOffset(m, uri, position) ==
    IF uri = EmptyUri THEN m
    ELSE IF m.db_ok THEN [m EXCEPT !.db[uri] = position]
    ELSE m

\* save_position_to_db: INSERT OR REPLACE unless "not uri or position <= 0";
\* what sqlite raises is caught and the row is not written
save_position_to_db(m, uri, position) ==
    IF uri = EmptyUri \/ position <= 0 THEN m
    ELSE IF m.db_ok THEN [m EXCEPT !.db[uri] = position]
    ELSE m

\* save_current_position(script_dir, episode_positions, playback_info)
save_current_position(m, info) ==
    LET stored == IF info.uri # EmptyUri /\ info.position > 0
                  THEN save_position_to_db([m EXCEPT !.episode_positions[info.uri] = info.position],
                                           info.uri, info.position)
                  ELSE m
    IN  Emit(stored, "save", "positions", info.position)

\* load_positions_from_db: the rows with position > 0 go into the dict
load_positions_from_db(m) ==
    IF ~m.db_ok THEN m
    ELSE [m EXCEPT !.episode_positions =
             [u \in Uris |-> IF m.db[u] # None /\ m.db[u] > 0 THEN m.db[u] ELSE @[u]]]

\* "if not saved_position or saved_position <= 0": no key, or nothing to seek to
absent(saved_position) == saved_position = None \/ saved_position <= 0

\* restore_position(script_dir, episode_positions, speaker, uri): the offset
\* from the dict, else from the table (and then kept in the dict), sent as a
\* seek to its H:MM:SS string; a seek that raises is caught
restore_position(m, uri) ==
    IF uri = EmptyUri THEN m
    ELSE LET in_memory == m.episode_positions[uri]
             row == IF absent(in_memory) /\ m.db_ok THEN m.db[uri] ELSE None
             saved_position == IF absent(in_memory) /\ row # None THEN row ELSE in_memory
             m1 == IF absent(in_memory) /\ row # None
                   THEN [m EXCEPT !.episode_positions[uri] = row] ELSE m
         IN  IF absent(saved_position) THEN m1
             ELSE Emit(IF m1.online /\ m1.dev.uri = uri
                       THEN [m1 EXCEPT !.dev.position =
                               Min(parse_time(FormatHMS(saved_position)), m1.dev.duration)]
                       ELSE m1,
                       "seek", "positions", parse_time(FormatHMS(saved_position)))

\* play_podcast_episode: "raise" when listing the files raises, "none" when
\* the feed has no local episode, "failed" when a speaker call raises (caught
\* inside), else "played"
play_outcome(m, slug, raises) ==
    IF raises THEN "raise"
    ELSE IF library[slug] = <<>> THEN "none"
    ELSE IF m.online THEN "played" ELSE "failed"

\* mutant: every index but a negative one goes to the newest episode
play_podcast_episode_Newest(m, slug, episode_index, raises) ==
    LET files == library[slug]
        idx == IF episode_index < 0 THEN Len(files) - 1 ELSE 0
        url == EpisodeUrl(slug, files[idx + 1])
        m1 == get_playback_info(m, FALSE)
        m2 == save_current_position(m1, m1.cache)
    IN  CASE play_outcome(m, slug, raises) \in {"raise", "none"} -> m
          [] play_outcome(m, slug, raises) = "failed" -> Emit(m2, "raise", "episode", idx)
          [] OTHER ->
               restore_position(Emit([m2 EXCEPT !.dev = PlayingDev(url, 0)],
                                     "device", "episode", idx),
                                url)

play_podcast_episode(m, slug, episode_index, raises) ==
    LET files == library[slug]
        idx == IF episode_index < 0 THEN Len(files) - 1
               ELSE IF episode_index >= Len(files) THEN 0
               ELSE episode_index
        url == EpisodeUrl(slug, files[idx + 1])
        m1 == get_playback_info(m, FALSE)
        m2 == save_current_position(m1, m1.cache)
    IN  CASE play_outcome(m, slug, raises) \in {"raise", "none"} -> m
          [] play_outcome(m, slug, raises) = "failed" -> Emit(m2, "raise", "episode", idx)
          [] OTHER ->
               restore_position(Emit([m2 EXCEPT !.dev = PlayingDev(url, 0)],
                                     "device", "episode", idx),
                                url)

\* mutant: the except branch forgets pending_volume
apply_volume_step_KeepsPendingOnError(m, t) ==
    CASE t.pc = "call" ->
           IF m.online
           THEN [m |-> Emit([m EXCEPT !.volume = t.val], "device", "volume", t.val),
                 t |-> [Advance(t, "device", "clear") EXCEPT !.issued = TRUE]]
           ELSE [m |-> Emit(m, "raise", "volume", t.val),
                 t |-> [t EXCEPT !.pc = "done", !.log = Append(@, "raise"), !.err = TRUE]]
      [] t.pc = "clear" ->
           [m |-> Emit([m EXCEPT !.pending_volume = None], "clear", "volume", 0),
            t |-> Advance(t, "clear", "paint")]
      [] OTHER ->
           [m |-> update_ui(m), t |-> Advance(t, "paint", "done")]

\* mutant: the repaint comes before pending_volume is cleared
apply_volume_step_ClearsAfterPaint(m, t) ==
    CASE t.pc = "call" ->
           IF m.online
           THEN [m |-> Emit([m EXCEPT !.volume = t.val], "device", "volume", t.val),
                 t |-> [Advance(t, "device", "paint") EXCEPT !.issued = TRUE]]
           ELSE [m |-> Emit(m, "raise", "volume", t.val),
                 t |-> [Advance(t, "raise", "clear") EXCEPT !.err = TRUE]]
      [] t.pc = "paint" ->
           [m |-> update_ui(m), t |-> Advance(t, "paint", "clear")]
      [] OTHER ->
           [m |-> Emit([m EXCEPT !.pending_volume = None], "clear", "volume", 0),
            t |-> Advance(t, "clear", "done")]

\* apply_volume_change
apply_volume_step(m, t) ==
    CASE t.pc = "call" ->
           IF m.online
           THEN [m |-> Emit([m EXCEPT !.volume = t.val], "device", "volume", t.val),
                 t |-> [Advance(t, "device", "clear") EXCEPT !.issued = TRUE]]
           ELSE [m |-> Emit(m, "raise", "volume", t.val),
                 t |-> [Advance(t, "raise", "clear") EXCEPT !.err = TRUE]]
      [] t.pc = "clear" ->
           [m |-> Emit([m EXCEPT !.pending_volume = None], "clear", "volume", 0),
            t |-> Advance(t, "clear", IF t.err THEN "done" ELSE "paint")]
      [] OTHER ->
           [m |-> update_ui(m), t |-> Advance(t, "paint", "done")]

\* apply_scrub_change
apply_scrub_step(m, t) ==
    CASE t.pc = "call" ->
           IF m.online
           THEN [m |-> Emit([m EXCEPT !.dev.position =
                                Min(parse_time(FormatHMS(t.val)), m.dev.duration)],
                            "device", "seek", t.val),
                 t |-> [Advance(t, "device", "refresh") EXCEPT !.issued = TRUE]]
           ELSE [m |-> Emit(m, "raise", "seek", t.val),
                 t |-> [Advance(t, "raise", "refresh") EXCEPT !.err = TRUE]]
      [] t.pc = "refresh" ->
           [m |-> force_refresh(m), t |-> Advance(t, "refresh", "clear")]
      [] t.pc = "clear" ->
           [m |-> Emit([m EXCEPT !.pending_scrub_position = None], "clear", "seek", 0),
            t |-> Advance(t, "clear", "paint")]
      [] OTHER ->
           [m |-> update_ui(m), t |-> Advance(t, "paint", "done")]

\* apply_episode_change
apply_episode_step(m, t, raises) ==
    CASE t.pc = "call" ->
           IF play_outcome(m, t.slug, raises) = "raise"
           THEN [m |-> Emit(m, "raise", "episode", t.val),
                 t |-> [Advance(t, "raise", "clear") EXCEPT !.err = TRUE]]
           ELSE [m |-> play_podcast_episode(m, t.slug, t.val, raises),
                 t |-> [Advance(t, IF play_outcome(m, t.slug, raises) = "played"
                                   THEN "device" ELSE play_outcome(m, t.slug, raises),
                                "clear")
                          EXCEPT !.issued = play_outcome(m, t.slug, raises) # "none"]]
      [] t.pc = "clear" ->
           [m |-> Emit([m EXCEPT !.pending_episode_index = None,
                                 !.pending_episode_slug = NoSlug],
                       "clear", "episode", 0),
            t |-> Advance(t, "clear", IF t.err THEN "done" ELSE "refresh")]
      [] t.pc = "refresh" ->
           [m |-> force_refresh(m), t |-> Advance(t, "refresh", "paint")]
      [] OTHER ->
           [m |-> update_ui(m), t |-> Advance(t, "paint", "done")]

\* apply_track_skip; skip_track catches what speaker.next / previous raise
apply_track_skip_step(m, t) ==
    CASE t.pc = "call" ->
           [m |-> Emit(IF m.online THEN [m EXCEPT !.dev.position = 0] ELSE m,
                       IF t.val > 0 THEN "next" ELSE "previous", "skip", t.val),
            t |-> [Advance(t, "device", "refresh") EXCEPT !.issued = TRUE, !.err = ~m.online]]
      [] t.pc = "refresh" ->
           [m |-> force_refresh(m), t |-> Advance(t, "refresh", "paint")]
      [] OTHER ->
           [m |-> update_ui(m), t |-> Advance(t, "paint", "done")]

\* refresh_state, the callback of schedule_state_refresh
refresh_state_step(m, t) ==
    CASE t.pc = "call" ->
           [m |-> force_refresh(m), t |-> Advance(t, "refresh", "paint")]
      [] OTHER ->
           [m |-> update_ui(m), t |-> Advance(t, "paint", "done")]

ApplyStep(m, t, raises) ==
    CASE t.axis = "volume" -> apply_volume_step(m, t)
      [] t.axis = "state" -> refresh_state_step(m, t)
      [] t.axis = "seek" -> apply_scrub_step(m, t)
      [] t.axis = "episode" -> apply_episode_step(m, t, raises)
      [] OTHER -> apply_track_skip_step(m, t)

\* a callback thread gives way where it sleeps: apply_scrub_change and
\* apply_track_skip after the speaker call, apply_episode_change after it
\* has cleared the pending episode
Sleeps(t) ==
    /\ t.pc = "refresh"
    /\ t.log[Len(t.log)] # "refresh"
    /\ ~(t.axis = "seek" /\ t.err)

RECURSIVE RunToSleep(_, _, _)
RunToSleep(m, t, raises) ==
    LET r == ApplyStep(m, t, raises)
    IN  IF r.t.pc = "done" \/ Sleeps(r.t) THEN r ELSE RunToSleep(r.m, r.t, raises)

\* the whole callback in one go, as on_dial_change calls it when delay <= 0
RECURSIVE RunApply(_, _, _)
RunApply(m, t, raises) ==
    IF t.pc = "done" THEN [m |-> m, t |-> t]
    ELSE LET r == ApplyStep(m, t, raises) IN RunApply(r.m, r.t, raises)

----------------------------------------------------------------------------
(* on_dial_change *)

\* mutant: the handler does not cancel the timer it replaces
Cancelled_Ineffective(axis) == Settled(timers)

\* mutant: one timer global shared by all the dials
Cancelled_EveryAxis(axis) ==
    [i \in DOMAIN timers |->
        IF timers[i].st = "waiting" THEN Dropped(timers[i], "cancelled")
        ELSE Forgotten(timers[i])]

\* "if timer: timer.cancel()": threading.Timer.cancel stops a timer that is
\* still waiting and does nothing to a callback that has started
Cancelled(axis) ==
    LET i == debounce_timer[axis]
    IN  IF i # 0 /\ timers[i].st = "waiting"
        THEN [Settled(timers) EXCEPT ![i] = Dropped(@, "cancelled")]
        ELSE Settled(timers)

\* mutant: the "delay <= 0" test is missing
Schedule_AlwaysArm(m, axis, val, slug, raises) ==
    /\ Len(timers) < MaxTimers
    /\ Commit(m)
    /\ timers' = Append(Cancelled(axis), NewTimer(axis, val, slug, "waiting"))
    /\ debounce_timer' = [debounce_timer EXCEPT ![axis] = Len(timers) + 1]

\* the tail of each dial branch: run the action now when delay <= 0, else
\* start a threading.Timer for it and keep it in the axis's global
Schedule(m, axis, val, slug, raises) ==
    IF dial_debounce_seconds <= 0
    THEN /\ Commit(RunApply(m, NewTimer(axis, val, slug, "running"), raises).m)
         /\ timers' = Cancelled(axis)
         /\ UNCHANGED debounce_timer
    ELSE /\ Len(timers) < MaxTimers
         /\ Commit(m)
         /\ timers' = Append(Cancelled(axis), NewTimer(axis, val, slug, "waiting"))
         /\ debounce_timer' = [debounce_timer EXCEPT ![axis] = Len(timers) + 1]

\* a branch that returns after its cancel without scheduling anything
ReturnEarly(m, axis) ==
    /\ Commit(m)
    /\ timers' = Cancelled(axis)
    /\ UNCHANGED debounce_timer

\* play_episode_func can raise only where it is called at once
RaiseChoices == IF dial_debounce_seconds <= 0 THEN BOOLEAN ELSE {FALSE}

Environment == <<library, podcast_state, dial_debounce_seconds, dials, tracks, turned, refresh, deck, Feed>>

\* delta == 0: return before anything else
DialTurnZero ==
    /\ \E dial \in dials : 0 \in (IF dial = 0 THEN VolumeDeltas ELSE TurnDeltas)
    /\ trace # <<>>
    /\ trace' = <<>>
    /\ timers' = Settled(timers)
    /\ UNCHANGED <<episode_positions, db, pending_volume, pending_scrub_position, pending_episode_index,
                   pending_episode_slug, debounce_timer, volume, dev,
                   cached_playback_info, fresh, Environment>>

\* dial 0, TURN
DialTurnVolume(delta, online) ==
    /\ 0 \in dials
    /\ delta # 0
    /\ LET m0 == Mem(online)
       IN  IF pending_volume = None /\ ~online
           THEN \* speaker.volume raises: caught by the handler's except
                ReturnEarly(m0, "volume")
           ELSE LET current_vol == effective_value(pending_volume, volume)
                    new_vol == Max(0, Min(100, current_vol + delta))
                    m1 == update_ui([m0 EXCEPT !.pending_volume = new_vol])
                IN  Schedule(m1, "volume", new_vol, NoSlug, FALSE)
    /\ turned' = vol_pct(turned + delta)
    /\ UNCHANGED <<library, podcast_state, dial_debounce_seconds, dials, tracks, refresh, deck, Feed>>

\* mutant: "if duration >= 0"
can_seek_Always(duration) == duration >= 0

\* "if duration > 0": a track of unknown length is not scrubbed
can_seek(duration) == duration > 0

\* dial 1, TURN
DialTurnSeek(delta, online) ==
    /\ 1 \in dials
    /\ delta # 0
    /\ LET m0 == get_playback_info(Mem(online), FALSE)
           current_pos == effective_value(pending_scrub_position, m0.cache.position)
           duration == m0.cache.duration
       IN  IF can_seek(duration)
           THEN LET seek_delta == delta * ScrubStep
                    new_position == Max(0, Min(duration, current_pos + seek_delta))
                    m1 == update_ui([m0 EXCEPT !.pending_scrub_position = new_position])
                IN  Schedule(m1, "seek", new_position, NoSlug, FALSE)
           ELSE ReturnEarly(m0, "seek")
    /\ UNCHANGED Environment

\* mutant: every turn skips forward
skip_direction_AlwaysNext(delta) == 1

\* direction = 1 if delta > 0 else -1
skip_direction(delta) == IF delta > 0 THEN 1 ELSE -1

\* dial 2, TURN, while is_spotify_playing()
DialTurnSkip(delta, online) ==
    /\ 2 \in dials
    /\ delta # 0
    /\ is_spotify_playing(Mem(online))
    /\ Schedule(Mem(online), "skip", skip_direction(delta), NoSlug, FALSE)
    /\ UNCHANGED Environment

\* mutant: the playing file is never looked for
IndexOfUri_NotFound(slug, files, uri) == None

\* index of the episode whose URL is the URI being played, None when there is none
IndexOfUri(slug, files, uri) ==
    IF uri # EmptyUri /\ \E i \in 1..Len(files) : EpisodeUrl(slug, files[i]) = uri
    THEN (CHOOSE i \in 1..Len(files) :
             /\ EpisodeUrl(slug, files[i]) = uri
             /\ \A j \in 1..(i - 1) : EpisodeUrl(slug, files[j]) # uri) - 1
    ELSE None

\* dial 2, TURN, otherwise
DialTurnEpisode(delta, online, raises) ==
    /\ 2 \in dials
    /\ delta # 0
    /\ ~is_spotify_playing(Mem(online))
    /\ LET m0 == Mem(online)
           current_slug == detect_current_podcast(m0)
       IN  IF current_slug = NoSlug THEN ReturnEarly(m0, "episode")
           ELSE LET files == library[current_slug]
                    use_pending == pending_episode_index # None
                                      /\ pending_episode_slug = current_slug
                    m1 == IF use_pending THEN m0 ELSE get_playback_info(m0, FALSE)
                    found == IF use_pending THEN pending_episode_index
                             ELSE IndexOfUri(current_slug, files, m1.cache.uri)
                    current_idx == IF found # None THEN found
                                   ELSE Max(0, podcast_state[current_slug] - 1)
                    stepped == current_idx + delta
                    new_idx == IF stepped < 0 THEN Len(files) - 1
                               ELSE IF stepped >= Len(files) THEN 0
                               ELSE stepped
                    m2 == update_ui([m1 EXCEPT !.pending_episode_index = new_idx,
                                               !.pending_episode_slug = current_slug])
                IN  IF files = <<>> THEN ReturnEarly(m0, "episode")
                    ELSE Schedule(m2, "episode", new_idx, current_slug, raises)
    /\ UNCHANGED Environment

----------------------------------------------------------------------------
(* on_key_change and the push of dial 1 *)

\* mutant: the timer that is replaced is not cancelled
ScheduleRefresh_KeepsOlder(m) ==
    /\ Len(timers) < MaxTimers
    /\ Commit(m)
    /\ timers' = Append(Settled(timers), NewTimer("state", 0, NoSlug, "waiting"))
    /\ debounce_timer' = [debounce_timer EXCEPT !["state"] = Len(timers) + 1]

\* schedule_state_refresh: cancel state_refresh_timer and start a new one
ScheduleRefresh(m) ==
    /\ Len(timers) < MaxTimers
    /\ Commit(m)
    /\ timers' = Append(Cancelled("state"), NewTimer("state", 0, NoSlug, "waiting"))
    /\ debounce_timer' = [debounce_timer EXCEPT !["state"] = Len(timers) + 1]

\* an exception caught before anything is scheduled
Caught(m) ==
    /\ Commit(m)
    /\ timers' = Settled(timers)
    /\ UNCHANGED debounce_timer

Paused(d) == [d EXCEPT !.state = "PAUSED_PLAYBACK"]

\* mutant: whatever plays is paused
toggle_loop_PausesAnything(m) ==
    IF ~m.online THEN m
    ELSE IF m.dev.state = "PLAYING"
         THEN Emit([m EXCEPT !.dev = Paused(@)], "pause", "loop", 0)
         ELSE Emit(Emit(Emit([m EXCEPT !.dev = PlayingDev(LoopUrl, 0)],
                             "device", "loop", 0), "repeat", "loop", 1), "play", "loop", 0)

\* toggle_loop: pause the loop when it is playing, else play_uri, repeat =
\* True and play; it reads the transport state and the track from the
\* device, not from the cache, and logs and swallows what the speaker raises
toggle_loop(m) ==
    IF ~m.online THEN m
    ELSE IF m.dev.state = "PLAYING" /\ m.dev.uri = LoopUrl
         THEN Emit([m EXCEPT !.dev = Paused(@)], "pause", "loop", 0)
         ELSE Emit(Emit(Emit([m EXCEPT !.dev = PlayingDev(LoopUrl, 0)],
                             "device", "loop", 0), "repeat", "loop", 1), "play", "loop", 0)

\* the keys of the deck and what the configuration maps them to
Keys == 0..3
loop_buttons == {0}
podcast_buttons == [key \in {1} |-> "news"]
spotify_buttons == {2}

\* the speaker calls of the Spotify branch, in order; a fault is the place
\* of the call that raises, 0 when none does
SpotifyCalls == <<"clear_queue", "add_share_link_to_queue", "device">>
Faults == 0..Len(SpotifyCalls)

\* mutant: a release is handled like a press
key_action_OnRelease(key, state) ==
    IF key \in loop_buttons THEN "loop"
    ELSE IF key \in DOMAIN podcast_buttons THEN "podcast"
    ELSE IF key \in spotify_buttons THEN "spotify"
    ELSE "none"

\* the branch on_key_change takes
key_action(key, state) ==
    IF ~state THEN "none"
    ELSE IF key \in loop_buttons THEN "loop"
    ELSE IF key \in DOMAIN podcast_buttons THEN "podcast"
    ELSE IF key \in spotify_buttons THEN "spotify"
    ELSE "none"

\* the callback is entered
Pressed(key, state, online) ==
    Emit(Mem(online), IF state THEN "press" ELSE "release", "key", key)

\* a release, or a key that nothing is mapped to
KeyIgnored(m) ==
    /\ Caught(m)
    /\ UNCHANGED Environment

\* key in loop_buttons
KeyLoop(m) ==
    /\ ScheduleRefresh(update_ui(toggle_loop(m)))
    /\ UNCHANGED Environment

\* mutant: the index is not wrapped before it is kept
next_index_NoWrap(slug) ==
    IF library[slug] = <<>> THEN None ELSE podcast_state[slug]

\* play_podcast_next: the episode at podcast_state[slug], wrapped; None when
\* there is no file and nothing is played or advanced
next_index(slug) ==
    IF library[slug] = <<>> THEN None
    ELSE IF podcast_state[slug] >= Len(library[slug]) THEN 0
    ELSE podcast_state[slug]

\* key in podcast_buttons; raises: list_podcast_files raises in play_podcast_next
KeyPodcast(m, slug, raises) ==
    /\ LET m0 == get_playback_info(m, FALSE)
           m1 == save_current_position(m0, m0.cache)
           idx == next_index(slug)
           m2 == IF idx = None THEN m1 ELSE play_podcast_episode(m1, slug, idx, FALSE)
       IN  IF raises
           THEN Caught(m1) /\ UNCHANGED podcast_state
           ELSE /\ ScheduleRefresh(update_ui(force_refresh(m2)))
                /\ podcast_state' = IF idx = None THEN podcast_state
                                     ELSE [podcast_state EXCEPT ![slug] = idx + 1]
    /\ UNCHANGED <<library, dial_debounce_seconds, dials, tracks, turned, refresh, deck, Feed>>

\* mutant: an error of a call is logged and the next call is made
spotify_calls_GoesOn(m, k, fault) ==
    IF k > Len(SpotifyCalls) THEN m
    ELSE IF k = fault THEN spotify_calls(Emit(m, "raise", "spotify", k), k + 1, fault)
    ELSE LET called == Emit(m, SpotifyCalls[k], "spotify", 0)
         IN  spotify_calls(IF SpotifyCalls[k] = "device"
                           THEN [called EXCEPT !.dev = PlayingDev(SpotifyUri, 0)]
                           ELSE called, k + 1, fault)

\* speaker.clear_queue(), share_link.add_share_link_to_queue(spotify_uri),
\* speaker.play_from_queue(0), up to the call that raises; the last one is
\* the device command that starts the playback
spotify_calls(m, k, fault) ==
    IF k > Len(SpotifyCalls) THEN m
    ELSE IF k = fault THEN Emit(m, "raise", "spotify", k)
    ELSE LET called == Emit(m, SpotifyCalls[k], "spotify", 0)
         IN  spotify_calls(IF SpotifyCalls[k] = "device"
                           THEN [called EXCEPT !.dev = PlayingDev(SpotifyUri, 0)]
                           ELSE called, k + 1, fault)

\* key in spotify_buttons; a speaker that does not answer raises in the
\* first call
KeySpotify(m, fault) ==
    /\ LET m0 == get_playback_info(m, FALSE)
           m1 == save_current_position(m0, m0.cache)
           raising == IF m.online THEN fault ELSE 1
           m2 == spotify_calls(m1, 1, raising)
       IN  IF raising = 0
           THEN ScheduleRefresh(update_ui(force_refresh(m2)))
           ELSE Caught(m2)
    /\ UNCHANGED Environment

\* on_key_change(deck, key, state)
OnKeyChange(key, state, online, fault) ==
    LET m == Pressed(key, state, online)
        action == key_action(key, state)
    IN  CASE action = "loop" -> KeyLoop(m)
          [] action = "podcast" -> KeyPodcast(m, podcast_buttons[key], fault # 0)
          [] action = "spotify" -> KeySpotify(m, fault)
          [] OTHER -> KeyIgnored(m)

\* dial 1, PUSH with value True: pause when PLAYING, else play
DialPush(online) ==
    /\ 1 \in dials
    /\ LET m0 == Mem(online)
           m1 == get_playback_info(m0, FALSE)
           m2 == save_current_position(m1, m1.cache)
       IN  IF ~online THEN Caught(m0)
           ELSE IF dev.state = "PLAYING"
                THEN ScheduleRefresh(update_ui(
                        Emit([m2 EXCEPT !.dev = Paused(@)], "pause", "transport", 0)))
                ELSE ScheduleRefresh(update_ui(
                        Emit([m0 EXCEPT !.dev.state =
                                 IF m0.dev.uri = EmptyUri THEN @ ELSE "PLAYING"],
                             "play", "transport", 0)))
    /\ UNCHANGED Environment

----------------------------------------------------------------------------
(* The persistence functions called on their own *)

PositionUris == {EmptyUri, SpotifyUri, EpisodeUrl("news", EpisodeFiles[1])}

Store(online, db_ok) == [Mem(online) EXCEPT !.db_ok = db_ok]

SaveCurrentPosition(uri, position, db_ok) ==
    /\ Caught(save_current_position(Store(TRUE, db_ok), [uri |-> uri, position |-> position]))
    /\ UNCHANGED Environment

SavePositionToDb(uri, position, db_ok) ==
    /\ Caught(Emit(save_position_to_db(Store(TRUE, db_ok), uri, position),
                   "save_db", "positions", position))
    /\ UNCHANGED Environment

LoadPositionsFromDb(db_ok) ==
    /\ Caught(Emit(load_positions_from_db(Store(TRUE, db_ok)), "load", "positions", 0))
    /\ UNCHANGED Environment

RestorePosition(uri, online, db_ok) ==
    /\ Caught(Emit(restore_position(Store(online, db_ok), uri), "restored", "positions", 0))
    /\ UNCHANGED Environment

\* the process starts again: an empty EPISODE_POSITIONS, then main's load
Startup(db_ok) ==
    /\ Caught(Emit(load_positions_from_db(
                      [Store(TRUE, db_ok) EXCEPT !.episode_positions = NoPositions]),
                   "load", "positions", 0))
    /\ UNCHANGED Environment

----------------------------------------------------------------------------
(* Timer threads *)

\* the delay has elapsed and the timer was not cancelled: the callback starts
TimerFire(i) ==
    /\ timers[i].st = "waiting"
    /\ timers' = [Settled(timers) EXCEPT ![i].st = "running"]
    /\ trace' = <<>>
    /\ UNCHANGED <<episode_positions, db, pending_volume, pending_scrub_position, pending_episode_index,
                   pending_episode_slug, debounce_timer, volume, dev,
                   cached_playback_info, fresh, Environment>>

\* the callback runs up to its next time.sleep, or to its end
TimerStep(i, online, raises) ==
    /\ timers[i].st = "running"
    /\ LET r == RunToSleep(Mem(online), timers[i], raises)
       IN  /\ Commit(r.m)
           /\ timers' = [Settled(timers) EXCEPT ![i] =
                           IF r.t.pc = "done" THEN Dropped(r.t, "finished") ELSE r.t]
    /\ UNCHANGED <<debounce_timer, Environment>>

----------------------------------------------------------------------------
(* The main loop and the world around the program *)

\* main's loop body: a forced refresh, and a repaint while PLAYING
MainLoop(online) ==
    /\ LET m == force_refresh(Mem(online))
       IN  Commit(IF m.cache.state = "PLAYING" THEN update_ui(m) ELSE m)
    /\ timers' = Settled(timers)
    /\ UNCHANGED <<debounce_timer, Environment>>

\* the device moves on: another track, another position, or it stops
DeviceChange ==
    /\ dials \cap {1, 2} # {}
    /\ \E d \in tracks \ {dev} : dev' = d
    /\ trace' = <<>>
    /\ timers' = Settled(timers)
    /\ UNCHANGED <<episode_positions, db, pending_volume, pending_scrub_position, pending_episode_index,
                   pending_episode_slug, debounce_timer, volume,
                   cached_playback_info, fresh, Environment>>

\* a second passes since the last successful fetch
CacheExpire ==
    /\ fresh
    /\ fresh' = FALSE
    /\ trace' = <<>>
    /\ timers' = Settled(timers)
    /\ UNCHANGED <<episode_positions, db, pending_volume, pending_scrub_position, pending_episode_index,
                   pending_episode_slug, debounce_timer, volume, dev,
                   cached_playback_info, Environment>>

\* the fetch script adds or prunes episode files
LibraryChange ==
    /\ 2 \in dials
    /\ \E s \in Podcasts :
          \E l \in Libraries \ {library[s]} : library' = [library EXCEPT ![s] = l]
    /\ trace' = <<>>
    /\ timers' = Settled(timers)
    /\ UNCHANGED <<episode_positions, db, pending_volume, pending_scrub_position, pending_episode_index,
                   pending_episode_slug, debounce_timer, volume, dev,
                   cached_playback_info, fresh, podcast_state,
                   dial_debounce_seconds, dials, tracks, turned, refresh, deck, Feed>>

\* the state after import and main's setup, for the dials in ds
InitPlayer(ds) ==
    /\ pending_volume = None
    /\ pending_scrub_position = None
    /\ pending_episode_index = None
    /\ pending_episode_slug = NoSlug
    /\ debounce_timer = [a \in TimerGlobals |-> 0]
    /\ timers = <<>>
    /\ volume \in InitVolumes
    /\ turned = volume
    /\ refresh = NoRefresh
    /\ deck = [brightness |-> BRIGHTNESS, current_brightness_ref |-> BRIGHTNESS]
    /\ cached_playback_info = InitCache
    /\ fresh = FALSE
    /\ library \in [Podcasts -> Libraries]
    /\ podcast_state = [s \in Podcasts |-> 0]
    /\ episode_positions = NoPositions
    /\ db = NoPositions
    /\ dial_debounce_seconds \in DelayChoices
    /\ dials \in ds
    /\ 0 \notin dials => volume = 50
    /\ tracks \in TrackSets(dials)
    /\ dev \in tracks
    /\ 2 \notin dials => library = [s \in Podcasts |-> EpisodeFiles]
    /\ trace = <<>>

\* the player with an empty feed directory that is not looked at
InitWith(ds) ==
    /\ InitPlayer(ds)
    /\ feed_dir = [exists |-> TRUE, files |-> <<>>]
    /\ mtime = [n \in Names |-> 0]
    /\ episode_metadata = [state |-> "ok", rows |-> [n \in Names |-> NoRow]]
    /\ listing = NotListed
    /\ podcasts = NoPodcasts
    /\ fetch = NoFetch

Init == InitWith(DialSets)

Next ==
    \/ DialTurnZero
    \/ \E delta \in VolumeDeltas, online \in BOOLEAN : DialTurnVolume(delta, online)
    \/ \E delta \in TurnDeltas, online \in BOOLEAN : DialTurnSeek(delta, online)
    \/ \E delta \in SkipDeltas, online \in BOOLEAN : DialTurnSkip(delta, online)
    \/ \E delta \in TurnDeltas, online \in BOOLEAN, raises \in RaiseChoices :
          DialTurnEpisode(delta, online, raises)
    \/ \E i \in 1..Len(timers) : TimerFire(i)
    \/ \E i \in 1..Len(timers), online \in BOOLEAN :
          \E raises \in (IF timers[i].axis = "episode" /\ timers[i].pc = "call"
                          THEN BOOLEAN ELSE {FALSE}) :
             TimerStep(i, online, raises)
    \/ \E online \in BOOLEAN : MainLoop(online)
    \/ DeviceChange
    \/ CacheExpire
    \/ LibraryChange

Spec == Init /\ [][Next]_vars

\* the three debounced dials turned in one behaviour, with a positive delay
InitAxes == InitWith(AllDials) /\ dial_debounce_seconds > 0 /\ volume = 50

\* the handlers and the timer threads while the speaker answers every call
NextAxes ==
    \/ \E delta \in VolumeDeltas : DialTurnVolume(delta, TRUE)
    \/ \E delta \in TurnDeltas : DialTurnSeek(delta, TRUE)
    \/ \E delta \in SkipDeltas : DialTurnSkip(delta, TRUE)
    \/ \E delta \in TurnDeltas : DialTurnEpisode(delta, TRUE, FALSE)
    \/ \E i \in 1..Len(timers) : TimerFire(i)
    \/ \E i \in 1..Len(timers) : TimerStep(i, TRUE, FALSE)
    \/ MainLoop(TRUE)
    \/ DeviceChange

SpecAxes == InitAxes /\ [][NextAxes]_vars

\* the volume dial alone, its timers and their callbacks in any order, with
\* a speaker that answers
InitVolume == InitWith({{0}}) /\ dial_debounce_seconds > 0

NextVolume ==
    \/ \E delta \in VolumeDeltas : DialTurnVolume(delta, TRUE)
    \/ \E i \in 1..Len(timers) : TimerFire(i)
    \/ \E i \in 1..Len(timers) : TimerStep(i, TRUE, FALSE)
    \/ MainLoop(TRUE)

SpecVolume == InitVolume /\ [][NextVolume]_vars

\* the cache, the clock and the device as a thread inside get_playback_info
\* finds them
Refreshing ==
    [r |-> refresh, cache |-> cached_playback_info, dev |-> dev, trace |-> <<>>]

AtRest ==
    <<episode_positions, db, pending_volume, pending_scrub_position, pending_episode_index,
      pending_episode_slug, debounce_timer, timers, volume, dev, library, podcast_state,
      dial_debounce_seconds, dials, tracks, turned, deck, Feed>>

Refreshed(s) ==
    /\ refresh' = s.r
    /\ cached_playback_info' = s.cache
    /\ fresh' = ((s.r.now - s.r.last_playback_fetch) < 1)
    /\ trace' = s.trace
    /\ UNCHANGED AtRest

\* a thread calls get_playback_info(speaker, force_refresh)
GetPlaybackInfo(th, force) ==
    /\ refresh.calls[th].pc = "idle"
    /\ Refreshed(enter_get_playback_info(Refreshing, th, force))

\* a thread inside get_playback_info runs its next statement
GetPlaybackInfoStep(th, online) ==
    /\ refresh.calls[th].pc # "idle"
    /\ refresh.calls[th].pc = "track" => refresh.queries < MaxQueries
    /\ Refreshed(get_playback_info_thread(Refreshing, th, online))

\* time passes
Tick ==
    /\ refresh.now < MaxNow
    /\ Refreshed([Refreshing EXCEPT !.r.now = @ + 1])

\* two threads in get_playback_info while the device moves on
InitRefresh == InitWith({{1}}) /\ dial_debounce_seconds > 0

NextRefresh ==
    \/ \E th \in Threads, force \in BOOLEAN : GetPlaybackInfo(th, force)
    \/ \E th \in Threads, online \in BOOLEAN : GetPlaybackInfoStep(th, online)
    \/ Tick
    \/ DeviceChange

SpecRefresh == InitRefresh /\ [][NextRefresh]_vars

\* the keys, the push of dial 1 and the episode dial in one behaviour
InitKeys == InitWith({{1, 2}}) /\ dial_debounce_seconds > 0 /\ tracks = KeysTracks

NextKeys ==
    \/ \E key \in Keys : OnKeyChange(key, FALSE, TRUE, 0)
    \/ \E key \in Keys, online \in BOOLEAN : OnKeyChange(key, TRUE, online, 0)
    \/ \E key \in DOMAIN podcast_buttons \cup spotify_buttons, online \in BOOLEAN :
          OnKeyChange(key, TRUE, online, 1)
    \/ \E online \in BOOLEAN : DialPush(online)
    \/ \E delta \in TurnDeltas, online \in BOOLEAN : DialTurnEpisode(delta, online, FALSE)
    \/ \E i \in 1..Len(timers) : TimerFire(i)
    \/ \E i \in 1..Len(timers), online \in BOOLEAN : TimerStep(i, online, FALSE)
    \/ \E online \in BOOLEAN : MainLoop(online)
    \/ DeviceChange
    \/ CacheExpire

SpecKeys == InitKeys /\ [][NextKeys]_vars

\* the keys alone, with the refresh timers they arm
InitButtons ==
    InitWith({{1, 2}}) /\ dial_debounce_seconds > 0 /\ volume = 50 /\ tracks = ButtonsTracks

NextButtons ==
    \/ \E key \in Keys : OnKeyChange(key, FALSE, TRUE, 0)
    \/ \E key \in Keys, online \in BOOLEAN : OnKeyChange(key, TRUE, online, 0)
    \/ \E key \in spotify_buttons, fault \in Faults \ {0} : OnKeyChange(key, TRUE, TRUE, fault)
    \/ \E key \in DOMAIN podcast_buttons, online \in BOOLEAN :
          OnKeyChange(key, TRUE, online, 1)
    \/ \E i \in 1..Len(timers) : TimerFire(i)
    \/ \E i \in 1..Len(timers), online \in BOOLEAN : TimerStep(i, online, FALSE)
    \/ DeviceChange
    \/ CacheExpire

SpecButtons == InitButtons /\ [][NextButtons]_vars

\* the episode goes on playing
PlayOn ==
    /\ dev.state = "PLAYING"
    /\ dev.position < dev.duration
    /\ dev' = [dev EXCEPT !.position = @ + ScrubStep]
    /\ trace' = <<>>
    /\ timers' = Settled(timers)
    /\ UNCHANGED <<episode_positions, db, pending_volume, pending_scrub_position,
                   pending_episode_index, pending_episode_slug, debounce_timer, volume,
                   cached_playback_info, fresh, Environment>>

\* the Timer objects that have run or were cancelled are gone; a global that
\* still holds one cancels nothing
Collect ==
    /\ timers # <<>>
    /\ \A i \in 1..Len(timers) : timers[i].st \in {"cancelled", "finished"}
    /\ timers' = <<>>
    /\ debounce_timer' = [a \in TimerGlobals |-> 0]
    /\ trace' = <<>>
    /\ UNCHANGED <<episode_positions, db, pending_volume, pending_scrub_position,
                   pending_episode_index, pending_episode_slug, volume, dev,
                   cached_playback_info, fresh, Environment>>

\* the podcast key pressed again and again, nothing else switching the track
InitPresses ==
    InitWith({{2}}) /\ dial_debounce_seconds > 0 /\ tracks = PodcastTracks /\ dev = StoppedDev

NextPresses ==
    \/ \E key \in DOMAIN podcast_buttons, online \in BOOLEAN : OnKeyChange(key, TRUE, online, 0)
    \/ \E i \in 1..Len(timers) : TimerFire(i)
    \/ \E i \in 1..Len(timers) : TimerStep(i, TRUE, FALSE)
    \/ PlayOn
    \/ CacheExpire
    \/ Collect

SpecPresses == InitPresses /\ [][NextPresses]_vars

\* cleanup_old_episodes of the fetch script deletes the oldest episode
Pruned ==
    /\ 2 \in dials
    /\ \E s \in Podcasts :
          /\ library[s] # <<>>
          /\ library' = [library EXCEPT ![s] = SubSeq(@, 1, Len(@) - 1)]
    /\ trace' = <<>>
    /\ timers' = Settled(timers)
    /\ UNCHANGED <<episode_positions, db, pending_volume, pending_scrub_position, pending_episode_index,
                   pending_episode_slug, debounce_timer, volume, dev,
                   cached_playback_info, fresh, podcast_state,
                   dial_debounce_seconds, dials, tracks, turned, refresh, deck, Feed>>

\* dial 2 turned slowly and fast while episodes play and the catalog changes
InitEpisodes == InitWith({{2}}) /\ tracks = PodcastTracks

NextEpisodes ==
    \/ \E delta \in SkipDeltas, online \in BOOLEAN, raises \in RaiseChoices :
          DialTurnEpisode(delta, online, raises)
    \/ \E i \in 1..Len(timers) : TimerFire(i)
    \/ \E i \in 1..Len(timers), online \in BOOLEAN : TimerStep(i, online, FALSE)
    \/ MainLoop(TRUE)
    \/ DeviceChange
    \/ Pruned
    \/ LibraryChange

SpecEpisodes == InitEpisodes /\ [][NextEpisodes]_vars

\* mutant: the sum is not clamped
new_brightness_Unclamped(current_brightness, delta) ==
    current_brightness + delta * BrightnessStep

\* max(0, min(100, current_brightness + brightness_delta))
new_brightness(current_brightness, delta) ==
    Max(0, Min(100, current_brightness + delta * BrightnessStep))

\* dial 3, TURN; answers: deck_obj.set_brightness does not raise
DialTurnBrightness(delta, answers) ==
    /\ 3 \in dials
    /\ delta # 0
    /\ LET current_brightness == deck.current_brightness_ref
           new == new_brightness(current_brightness, delta)
       IN  IF answers
           THEN /\ deck' = [brightness |-> new, current_brightness_ref |-> new]
                /\ trace' = <<Ev("log", "deck", current_brightness), Ev("brightness", "deck", new)>>
           ELSE /\ deck' = deck
                /\ trace' = <<Ev("log", "deck", current_brightness), Ev("raise", "deck", new)>>
    /\ timers' = Settled(timers)
    /\ UNCHANGED <<episode_positions, db, pending_volume, pending_scrub_position,
                   pending_episode_index, pending_episode_slug, debounce_timer, volume, dev,
                   cached_playback_info, fresh, library, podcast_state,
                   dial_debounce_seconds, dials, tracks, turned, refresh, Feed>>

\* one of the clamped dials turned by any amount, in a behaviour of its own
InitDials == InitWith({{0}, {1}, {3}})

NextDials ==
    \/ \E delta \in WideVolumeDeltas, online \in BOOLEAN : DialTurnVolume(delta, online)
    \/ \E delta \in SeekDeltas, online \in BOOLEAN : DialTurnSeek(delta, online)
    \/ \E delta \in BrightnessDeltas, answers \in BOOLEAN : DialTurnBrightness(delta, answers)
    \/ \E i \in 1..Len(timers) : TimerFire(i)
    \/ \E i \in 1..Len(timers), online \in BOOLEAN : TimerStep(i, online, FALSE)
    \/ \E online \in BOOLEAN : MainLoop(online)
    \/ DeviceChange
    \/ CacheExpire

SpecDials == InitDials /\ [][NextDials]_vars

\* the keys and the push of dial 1 with every failure of the speaker, and
\* the refresh timers they arm
InitPushes == InitWith({{1}}) /\ dial_debounce_seconds > 0 /\ volume = 50

NextPushes ==
    \/ \E key \in Keys, online \in BOOLEAN : OnKeyChange(key, TRUE, online, 0)
    \/ \E key \in spotify_buttons, fault \in Faults \ {0} : OnKeyChange(key, TRUE, TRUE, fault)
    \/ \E key \in DOMAIN podcast_buttons, online \in BOOLEAN :
          OnKeyChange(key, TRUE, online, 1)
    \/ \E online \in BOOLEAN : DialPush(online)
    \/ \E i \in 1..Len(timers) : TimerFire(i)
    \/ \E i \in 1..Len(timers), online \in BOOLEAN : TimerStep(i, online, FALSE)
    \/ DeviceChange
    \/ CacheExpire
    \/ Collect

SpecPushes == InitPushes /\ [][NextPushes]_vars

\* the persistence functions alone, nothing playing
InitPositions == InitWith({{}}) /\ dial_debounce_seconds > 0 /\ volume = 50

NextPositions ==
    \/ \E uri \in PositionUris, position \in SavedOffsets, db_ok \in BOOLEAN :
          SaveCurrentPosition(uri, position, db_ok)
    \/ \E uri \in PositionUris, position \in SavedOffsets, db_ok \in BOOLEAN :
          SavePositionToDb(uri, position, db_ok)
    \/ \E db_ok \in BOOLEAN : LoadPositionsFromDb(db_ok)
    \/ \E uri \in PositionUris, online \in BOOLEAN, db_ok \in BOOLEAN :
          RestorePosition(uri, online, db_ok)
    \/ \E db_ok \in BOOLEAN : Startup(db_ok)

SpecPositions == InitPositions /\ [][NextPositions]_vars

\* a feed directory, its files and their rows, and the player at rest
InitCatalog ==
    /\ InitPlayer({{}})
    /\ dial_debounce_seconds > 0
    /\ volume = 50
    /\ feed_dir \in [exists : BOOLEAN, files : Listdirs(CatalogNames)]
    /\ ~feed_dir.exists => feed_dir.files = <<>>
    /\ mtime \in [Names -> Mtimes]
    /\ \A n \in Names \ (CatalogNames \cap Mp3Names) : mtime[n] = 2
    /\ episode_metadata \in [state : {"ok", "missing", "raises"}, rows : [Names -> Rows]]
    /\ \A n \in Names \ (CatalogNames \cap Mp3Names) : episode_metadata.rows[n] = NoRow
    /\ fetch = NoFetch
    /\ episode_metadata.state = "missing" => \A n \in Names : episode_metadata.rows[n] = NoRow
    /\ listing = NotListed
    /\ podcasts = NoPodcasts

NextCatalog == ListPodcastFiles

SpecCatalog == InitCatalog /\ [][NextCatalog]_vars

\* any feed directory, pruned with any keep-count
InitPrune ==
    /\ InitPlayer({{}})
    /\ dial_debounce_seconds > 0
    /\ volume = 50
    /\ feed_dir \in [exists : BOOLEAN, files : Listdirs(Names \ {"b.mp3"})]
    /\ ~feed_dir.exists => feed_dir.files = <<>>
    /\ mtime \in [Names -> Mtimes]
    /\ mtime["b.mp3"] = 2 /\ mtime["notes.txt"] = 2
    /\ episode_metadata = [state |-> "ok", rows |-> [n \in Names |-> NoRow]]
    /\ listing = NotListed
    /\ podcasts = NoPodcasts
    /\ \E keep \in KeepCounts : fetch = [NoFetch EXCEPT !.keep = keep]

NextPrune == CleanupOldEpisodes

SpecPrune == InitPrune /\ [][NextPrune]_vars

\* fetch cycles from an empty feed directory, as the feed grows
InitFetch ==
    /\ InitPlayer({{}})
    /\ dial_debounce_seconds > 0
    /\ volume = 50
    /\ feed_dir = [exists |-> FALSE, files |-> <<>>]
    /\ mtime = [n \in Names |-> 0]
    /\ episode_metadata = [state |-> "ok", rows |-> [n \in Names |-> NoRow]]
    /\ listing = NotListed
    /\ podcasts = NoPodcasts
    /\ \E keep \in KeepCounts \ {0}, download \in DownloadCounts :
          fetch = [NoFetch EXCEPT !.keep = keep, !.download = download, !.clock = 1]

NextFetch ==
    \/ \E outcomes \in [PublicationDays -> Outcomes] :
          /\ \A day \in PublicationDays : day > fetch.published => outcomes[day] = "ok"
          /\ FetchCycle(outcomes)
    \/ Publish

SpecFetch == InitFetch /\ [][NextFetch]_vars

\* a row as another writer of the table left it, with the day of publication
Dated(day) ==
    [NoRow EXCEPT !.present = TRUE, !.title = day, !.description = 1,
                  !.publication_date = <<day>>]

\* the directory of a feed before the run: the files it has, written by
\* earlier runs, and the rows of the episodes
FeedBefore(files, rows) ==
    [NoFeed EXCEPT !.dir = [exists |-> files # <<>>, files |-> files],
                   !.content = [n \in Names |->
                                   IF \E i \in 1..Len(files) : files[i] = n
                                   THEN "existing" ELSE ""],
                   !.rows = rows]

\* the first feed is tried in every state, the second in fewer
FeedsBefore(slug) ==
    IF slug = FeedSlugs[1]
    THEN {FeedBefore(files, [NoFeed.rows EXCEPT ![EpisodeName(1)] = row]) :
             files \in Listdirs(RunNames), row \in {NoRow, Dated(1)}}
    ELSE {FeedBefore(files, NoFeed.rows) : files \in Listdirs({EpisodeName(1)})}

EntriesOf(slug) ==
    IF slug = FeedSlugs[1] THEN FeedEntries
    ELSE {entries \in FeedEntries : \A i \in 1..Len(entries) : entries[i].audio}

\* one run of main over two feeds, from any directories and any feed content
InitMain ==
    /\ InitPlayer({{}})
    /\ dial_debounce_seconds > 0
    /\ volume = 50
    /\ feed_dir = [exists |-> FALSE, files |-> <<>>]
    /\ mtime = [n \in Names |-> 0]
    /\ episode_metadata = [state |-> "ok", rows |-> [n \in Names |-> NoRow]]
    /\ listing = NotListed
    /\ \E keep \in {1, 2}, download \in {1, 2} :
          fetch = [NoFetch EXCEPT !.keep = keep, !.download = download]
    /\ \E rss \in [FeedSet -> FeedEntries], feeds \in [FeedSet -> UNION {FeedsBefore(slug) : slug \in FeedSet}] :
          /\ \A slug \in FeedSet : rss[slug] \in EntriesOf(slug) /\ feeds[slug] \in FeedsBefore(slug)
          /\ podcasts = [NoPodcasts EXCEPT !.rss = rss, !.feeds = feeds, !.clock = 1]

NextMain ==
    \E outcomes \in [FeedSet -> [RunDays -> Outcomes]], db_ok \in BOOLEAN : Main(outcomes, db_ok)

SpecMain == InitMain /\ [][NextMain]_vars

----------------------------------------------------------------------------
(* Vocabulary of the properties *)

DebouncedAxes == {"volume", "seek", "episode"}

Pending(axis) ==
    CASE axis = "volume" -> pending_volume
      [] axis = "seek" -> pending_scrub_position
      [] OTHER -> pending_episode_index

\* armed and not fired yet, or fired and not returned yet
Alive(i) == timers[i].st \in {"waiting", "running"}

\* the callback of timer i returned in the last step
JustFinished(i) == timers[i].st = "finished" /\ timers[i].log # <<>>

Has(log, label) == \E k \in 1..Len(log) : log[k] = label

HasEvent(e, a) == \E k \in 1..Len(trace) : trace[k].ev = e /\ trace[k].axis = a

\* the last step was on_dial_change running an action of the axis at once
RanAtOnce(a) ==
    /\ dial_debounce_seconds <= 0
    /\ trace # <<>>
    /\ trace[1].ev \in {"paint", "blank"}
    /\ a \in DebouncedAxes
    /\ \E k \in 1..Len(trace) : trace[k].ev \in {"device", "raise", "clear"} /\ trace[k].axis = a

\* what a step did, a repaint counted once and the repaint of the turn itself left out
StepLog ==
    LET kept == SelectSeq(trace, LAMBDA e : /\ ~(e.axis = "volume" /\ e.ev \in {"paint", "blank"})
                                            /\ e.axis # "positions")
    IN  [k \in 1..Len(kept) |-> kept[k].ev]

ActionLog == IF StepLog # <<>> /\ StepLog[1] = "paint" THEN Tail(StepLog) ELSE StepLog

----------------------------------------------------------------------------
(* C1: on each debounced axis a burst of turns ends in exactly one device   *)
(* command, the one of the last turn: every action a later turn cancelled   *)
(* has a successor on its axis that is armed, running or done.              *)
C1_BurstEndsInOneCommand ==
    \A i \in 1..Len(timers) :
       (timers[i].st = "cancelled" /\ timers[i].axis \in DebouncedAxes)
          => \E j \in (i + 1)..Len(timers) :
                timers[j].axis = timers[i].axis /\ timers[j].st # "cancelled"

(* C2: volume 50, two +10 turns before the timer fires: pending_volume is   *)
(* 70 and is repainted after each turn before any device write, the first   *)
(* timer is cancelled, and the device gets one write, of 70, never 60.      *)
VolumeAt50 ==
    /\ dial_debounce_seconds > 0
    /\ volume = 50
    /\ pending_volume = None
    /\ timers = <<>>

AfterFirstTurn ==
    /\ dial_debounce_seconds > 0
    /\ volume = 50
    /\ pending_volume = 60
    /\ Len(timers) = 1
    /\ timers[1].st = "waiting"
    /\ timers[1].val = 60

AfterSecondTurn ==
    /\ dial_debounce_seconds > 0
    /\ volume = 50
    /\ Len(timers) = 2
    /\ timers[1].st = "cancelled"
    /\ Alive(2)
    /\ timers[2].val = 70

PaintedOnly(v) ==
    /\ HasEvent("paint", "volume")
    /\ \A k \in 1..Len(trace) :
          /\ trace[k].ev \notin {"device", "raise"}
          /\ (trace[k].ev = "paint" /\ trace[k].axis = "volume") => trace[k].val = v

C2_TwoTurnsOneWrite ==
    [][/\ (VolumeAt50 /\ \E o \in BOOLEAN : DialTurnVolume(10, o) /\ o)
          => (AfterFirstTurn' /\ PaintedOnly(60)')
       /\ (AfterFirstTurn /\ \E o \in BOOLEAN : DialTurnVolume(10, o))
          => (AfterSecondTurn' /\ pending_volume' = 70 /\ PaintedOnly(70)')
       /\ (AfterSecondTurn /\ Len(timers') = 2)
          => /\ timers'[1].st = "cancelled"
             /\ volume' \in {50, 70}
             /\ Alive(2)' => (volume' = 50 /\ pending_volume' = 70)
             /\ volume' = 70 =>
                   /\ timers'[2].st = "finished"
                   /\ timers'[2].log = <<"device", "clear", "paint">>
                   /\ Cardinality({k \in 1..Len(trace') :
                                     trace'[k].ev = "device"}) = 1
                   /\ \A k \in 1..Len(trace') :
                         trace'[k].ev = "device" => trace'[k].val = 70
      ]_vars

C2_Witness ==
    /\ Len(timers) = 2
    /\ timers[1].st = "cancelled"
    /\ JustFinished(2)
    /\ timers[2].issued
    /\ volume = 70
    /\ HasEvent("device", "volume")

(* C3: for each axis at most one delayed action is armed or executing.      *)
C3_OneActionPerAxis ==
    \A a \in Axes :
       Cardinality({i \in 1..Len(timers) : timers[i].axis = a /\ Alive(i)}) <= 1

(* C4: each fired action sets its axis's pending value to None before it     *)
(* returns, whether the device call succeeds or raises.                     *)
C4_PendingClearedOnFire ==
    /\ \A i \in 1..Len(timers) :
          (JustFinished(i) /\ timers[i].axis \in DebouncedAxes)
             => /\ Has(timers[i].log, "clear")
                /\ timers[i].axis # "episode" => Pending(timers[i].axis) = None
    /\ \A a \in DebouncedAxes :
          /\ HasEvent("clear", a) => Pending(a) = None
          /\ RanAtOnce(a) => HasEvent("clear", a)

C4_Witness ==
    \E i \in 1..Len(timers) :
       JustFinished(i) /\ timers[i].axis = "episode" /\ timers[i].err

(* C5: a pending value that is set is cleared again once the turns stop and *)
(* the timers fire: whenever it is set, an action of its axis that has yet  *)
(* to clear it is armed or executing.                                       *)
C5_PendingHasAction ==
    \A a \in DebouncedAxes :
       Pending(a) # None
          => \E i \in 1..Len(timers) :
                /\ timers[i].axis = a
                /\ Alive(i)
                /\ ~Has(timers[i].log, "clear")

OrderOf(axis) ==
    CASE axis = "volume" -> <<"device", "clear", "paint">>
      [] axis = "seek" -> <<"device", "refresh", "clear", "paint">>
      [] OTHER -> <<"device", "clear", "refresh", "paint">>

C7_RefreshAndRepaintOnError ==
    \A i \in 1..Len(timers) :
       (JustFinished(i) /\ timers[i].axis \in DebouncedAxes /\ timers[i].err)
          => /\ Has(timers[i].log, "clear")
             /\ Has(timers[i].log, "refresh")
             /\ Has(timers[i].log, "paint")

(* C8: a repaint shows the pending volume and the pending seek position     *)
(* whenever they are set, 0 included, and the device volume and the cached  *)
(* position exactly when they are not.                                      *)
EndsWithRepaint ==
    /\ Len(trace) >= 2
    /\ trace[Len(trace)].ev = "paint"
    /\ trace[Len(trace)].axis = "position"

C8_RepaintShowsEffectiveValue ==
    EndsWithRepaint =>
       LET vol == trace[Len(trace) - 1]
           pos == trace[Len(trace)]
       IN  /\ vol.axis = "volume"
           /\ pending_volume # None => (vol.ev = "paint" /\ vol.val = pending_volume)
           /\ pending_volume = None => (vol.ev = "blank" \/ vol.val = volume)
           /\ pending_scrub_position # None => pos.val = pending_scrub_position
           /\ pending_scrub_position = None => pos.val = cached_playback_info.position

C8_Witness ==
    /\ EndsWithRepaint
    /\ pending_volume = 0
    /\ volume # 0

(* C9: with dial_debounce_seconds <= 0 a turn runs its action inside        *)
(* on_dial_change: the device command is issued, no timer is armed and the  *)
(* pending value is None when the handler returns.                          *)
C9_RunsAtOnce ==
    dial_debounce_seconds <= 0 =>
       /\ timers = <<>>
       /\ \A a \in Axes : debounce_timer[a] = 0
       /\ \A a \in DebouncedAxes : Pending(a) = None
       /\ pending_episode_slug = NoSlug
       /\ (trace # <<>> /\ trace[1].ev \in {"paint", "blank"})
             => \E a \in DebouncedAxes : HasEvent("device", a) \/ HasEvent("raise", a)

C9_Witness ==
    /\ dial_debounce_seconds <= 0
    /\ HasEvent("device", "episode")
    /\ HasEvent("clear", "episode")

(* C10: a dial-1 turn handled while the playback info reports duration 0    *)
(* arms no seek action, sends no seek and leaves pending_scrub_position.    *)
C10_NoSeekWithoutDuration ==
    [][\A delta \in TurnDeltas, o \in BOOLEAN :
          (DialTurnSeek(delta, o) /\ get_playback_info(Mem(o), FALSE).cache.duration = 0)
             => /\ Len(timers') = Len(timers)
                /\ \A i \in 1..Len(timers') : timers'[i].st = "waiting" => timers[i].st = "waiting"
                /\ pending_scrub_position' = pending_scrub_position
                /\ ~HasEvent("device", "seek")'
                /\ ~HasEvent("raise", "seek")'
      ]_vars

C10_Witness ==
    /\ 1 \in dials
    /\ cached_playback_info.duration = 0
    /\ pending_scrub_position # None
    /\ \A i \in 1..Len(timers) : ~Alive(i)

(* C11: a turn on one dial does not cancel the timer or change the pending  *)
(* value of another axis; actions of different axes are armed together and  *)
(* each fires with the value its own axis asked for last.                   *)
OthersKept(axis) ==
    /\ \A i \in 1..Len(timers) :
          timers[i].axis # axis
             => /\ timers'[i].st = timers[i].st
                /\ timers'[i].val = timers[i].val
                /\ timers'[i].slug = timers[i].slug
    /\ \A b \in Axes \ {axis} : debounce_timer'[b] = debounce_timer[b]
    /\ \A b \in DebouncedAxes \ {axis} : Pending(b)' = Pending(b)
    /\ axis # "episode" => pending_episode_slug' = pending_episode_slug

\* a timer the step has armed is of the axis turned and carries what was asked
ArmsOwn(axis, asked) ==
    Len(timers') > Len(timers)
       => /\ timers'[Len(timers')].axis = axis
          /\ timers'[Len(timers')].st = "waiting"
          /\ timers'[Len(timers')].val = asked
          /\ debounce_timer'[axis] = Len(timers')

Commands == {"device", "next", "previous"}

C11_AxesIndependent ==
    [][/\ \A delta \in VolumeDeltas :
             DialTurnVolume(delta, TRUE)
                => OthersKept("volume") /\ ArmsOwn("volume", pending_volume')
       /\ \A delta \in TurnDeltas :
             /\ DialTurnSeek(delta, TRUE)
                   => OthersKept("seek") /\ ArmsOwn("seek", pending_scrub_position')
             /\ DialTurnEpisode(delta, TRUE, FALSE)
                   => OthersKept("episode") /\ ArmsOwn("episode", pending_episode_index')
             /\ DialTurnSkip(delta, TRUE)
                   => OthersKept("skip") /\ ArmsOwn("skip", IF delta > 0 THEN 1 ELSE -1)
       /\ \A i \in 1..Len(timers) :
             /\ TimerFire(i) => OthersKept(timers[i].axis)
             /\ TimerStep(i, TRUE, FALSE)
                   => /\ OthersKept(timers[i].axis)
                      /\ \A k \in 1..Len(trace') :
                            trace'[k].ev \in Commands
                               => /\ timers[i].pc = "call"
                                  /\ trace'[k].axis = timers[i].axis
                                  /\ trace'[k].val = timers[i].val
                      /\ timers[i].pc = "call"
                            => \E k \in 1..Len(trace') : trace'[k].ev \in Commands
      ]_vars

C11_Witness ==
    \E i, j \in 1..Len(timers) :
       /\ timers[i].axis # timers[j].axis
       /\ timers[i].st = "waiting"
       /\ JustFinished(j)
       /\ timers[j].issued
       /\ debounce_timer[timers[i].axis] = i

(* C12: every action that switches or pauses playback calls                 *)
(* save_current_position before its first playback command to the speaker.  *)
Switches(e) ==
    /\ e.ev \in {"device", "pause"}
    /\ e.axis \in {"loop", "episode", "spotify", "transport"}

C12_SaveBeforeSwitch ==
    \A k \in 1..Len(trace) :
       Switches(trace[k]) => \E j \in 1..(k - 1) : trace[j].ev = "save"

(* C13: every offset in the in-memory position map and in the               *)
(* episode_positions table is strictly positive, and a save with an empty   *)
(* URI or a position <= 0 changes neither of them.                          *)
PositiveOffsets ==
    \A u \in Uris :
       /\ episode_positions[u] # None => episode_positions[u] > 0
       /\ db[u] # None => db[u] > 0

C13_OnlyPositiveOffsets ==
    /\ []PositiveOffsets
    /\ [][\A uri \in PositionUris, position \in SavedOffsets, db_ok \in BOOLEAN :
             ((SaveCurrentPosition(uri, position, db_ok) \/ SavePositionToDb(uri, position, db_ok))
                /\ (uri = EmptyUri \/ position <= 0))
                => UNCHANGED <<episode_positions, db>>
         ]_vars

C13_Witness ==
    /\ HasEvent("save_db", "positions")
    /\ trace[1].val <= 0
    /\ \E u \in Uris : db[u] # None /\ episode_positions[u] = None

(* C14: restore_position sends exactly one seek, to the offset saved for    *)
(* the URI, from the in-memory map when it is there and else from the table *)
(* (which it then keeps in memory); with no saved offset it sends no seek.  *)
Seeks == {k \in 1..Len(trace) : trace[k].ev = "seek"}

C14_RestoreSeeksToSaved ==
    [][/\ \A uri \in PositionUris \ {EmptyUri}, position \in SavedOffsets, db_ok \in BOOLEAN :
             (SaveCurrentPosition(uri, position, db_ok) /\ position > 0)
                => /\ episode_positions'[uri] = position
                   /\ db_ok => db'[uri] = position
       /\ \A uri \in PositionUris, online \in BOOLEAN, db_ok \in BOOLEAN :
             RestorePosition(uri, online, db_ok)
                => LET saved == IF uri = EmptyUri THEN None
                                ELSE IF episode_positions[uri] # None THEN episode_positions[uri]
                                ELSE IF db_ok THEN db[uri]
                                ELSE None
                   IN  /\ saved = None => (Seeks' = {} /\ UNCHANGED episode_positions)
                       /\ saved # None
                             => /\ Cardinality(Seeks') = 1
                                /\ \A k \in Seeks' : trace'[k].val = saved
                                /\ episode_positions'[uri] = saved
                       /\ UNCHANGED db
      ]_vars

C14_Witness ==
    /\ HasEvent("restored", "positions")
    /\ \E k \in Seeks : trace[k].val = 3725
    /\ \E u \in Uris : episode_positions[u] = 3725 /\ db[u] = 3725

----------------------------------------------------------------------------
(* Properties of the episode catalog *)

Listed == listing.files

Mp3InDir == {feed_dir.files[i] : i \in {k \in 1..Len(feed_dir.files) : is_mp3(feed_dir.files[k])}}

\* every .mp3 file of the directory once, and nothing else
ListsEveryEpisode ==
    /\ {Listed[i] : i \in 1..Len(Listed)} = Mp3InDir
    /\ Len(Listed) = Cardinality(Mp3InDir)

\* the day a file's row gives as its publication date, 0 when it gives none
PublishedDay(name) ==
    LET row == episode_metadata.rows[name]
    IN  IF row.present /\ row.publication_datetime # <<>> THEN row.publication_datetime[1]
        ELSE IF row.present /\ row.publication_date # <<>> THEN row.publication_date[1]
        ELSE 0

(* C16: list_podcast_files returns all .mp3 episodes of the feed in         *)
(* descending string order of their order keys; episodes with pairwise      *)
(* different stored publication dates come newest-published first whatever  *)
(* their modification times; a missing feed directory gives an empty list.  *)
C16_NewestPublishedFirst ==
    (listing.done /\ episode_metadata.state # "raises")
       => /\ ~feed_dir.exists => Listed = <<>>
          /\ feed_dir.exists => ListsEveryEpisode
          /\ \A i, j \in 1..Len(Listed) :
                i < j => LexLeq(file_datetimes(Listed[j]), file_datetimes(Listed[i]))
          /\ (\A i, j \in 1..Len(Listed) :
                 /\ PublishedDay(Listed[i]) # 0
                 /\ i # j => PublishedDay(Listed[i]) # PublishedDay(Listed[j]))
                => \A i, j \in 1..Len(Listed) :
                      i < j => PublishedDay(Listed[i]) > PublishedDay(Listed[j])

C16_Witness ==
    /\ listing.done
    /\ episode_metadata.state = "ok"
    /\ Len(Listed) = 2
    /\ PublishedDay(Listed[1]) > PublishedDay(Listed[2])
    /\ PublishedDay(Listed[2]) > 0
    /\ mtime[Listed[1]] < mtime[Listed[2]]
    /\ SelectSeq(feed_dir.files, is_mp3) = <<Listed[2], Listed[1]>>

\* the key the preferences give: stored datetime, stored date, filename date, mtime
PreferredKey(name) ==
    LET row == episode_metadata.rows[name]
    IN  IF row.present /\ row.publication_datetime # <<>> THEN row.publication_datetime
        ELSE IF row.present /\ row.publication_date # <<>> THEN row.publication_date
        ELSE IF name_prefix(name) # <<>> THEN name_prefix(name)
        ELSE iso_of_mtime(mtime[name])

(* C17: the order key of a file is its stored publication_datetime, else    *)
(* its stored publication_date, else the date prefix of its filename, else  *)
(* its modification time in ISO form, and the files are ordered by it.      *)
C17_KeyByPreference ==
    (listing.done /\ episode_metadata.state # "raises")
       => /\ \A n \in Mp3InDir : file_datetimes(n) = PreferredKey(n)
          /\ \A i, j \in 1..Len(Listed) :
                i < j => LexLeq(PreferredKey(Listed[j]), PreferredKey(Listed[i]))

(* C18: when reading the publication data raises, list_podcast_files        *)
(* returns all the files of the feed by modification time, newest first.    *)
C18_FallbackByMtime ==
    (listing.done /\ episode_metadata.state = "raises" /\ feed_dir.exists)
       => /\ ListsEveryEpisode
          /\ \A i, j \in 1..Len(Listed) : i < j => mtime[Listed[i]] >= mtime[Listed[j]]

C18_Witness ==
    /\ listing.done
    /\ episode_metadata.state = "raises"
    /\ Len(Listed) = 2
    /\ mtime[Listed[1]] > mtime[Listed[2]]
    /\ SelectSeq(feed_dir.files, is_mp3) = <<Listed[2], Listed[1]>>
    /\ ~LexLeq(order_key(Listed[1]), order_key(Listed[2]))


\* the files of a directory listing that cleanup_old_episodes counts
Episodes(dir) == {dir.files[i] : i \in {k \in 1..Len(dir.files) : ends_with_mp3(dir.files[k])}}

Deleted == {fetch'.removed[i] : i \in 1..Len(fetch'.removed)}

Excess(count, keep) == IF count > keep THEN count - keep ELSE 0

\* C19: cleanup_old_episodes with keep-count N on a directory of M .mp3 files
\* deletes exactly max(0, M-N) of them, each at most as recently modified as
\* every file it keeps, so that the N most recently modified stay; the other
\* files of the directory and their order stay as they were, a file that does
\* not end in .mp3 is never deleted, and a missing directory stays missing
C19_PrunesOldestByMtime ==
    [][CleanupOldEpisodes =>
         /\ Cardinality(Deleted) = Excess(Cardinality(Episodes(feed_dir)), fetch.keep)
         /\ Len(fetch'.removed) = Cardinality(Deleted)
         /\ Deleted \subseteq Episodes(feed_dir)
         /\ Episodes(feed_dir') = Episodes(feed_dir) \ Deleted
         /\ \A old \in Deleted, kept \in Episodes(feed_dir') : mtime[old] <= mtime[kept]
         /\ feed_dir'.files = Without(feed_dir.files, fetch'.removed)
         /\ feed_dir'.exists = feed_dir.exists
         /\ ~feed_dir.exists => feed_dir' = feed_dir
         /\ mtime' = mtime]_vars

\* a cleanup that deleted one of three episodes, not the last one listed, and
\* left the text file
C19_Witness ==
    /\ fetch.cleaned
    /\ fetch.keep = 2
    /\ Len(fetch.removed) = 1
    /\ Len(feed_dir.files) = 3
    /\ feed_dir.files[3] = EpisodeName(3)
    /\ mtime[fetch.removed[1]] < mtime[EpisodeName(3)]
    /\ \E i \in 1..2 : feed_dir.files[i] = "notes.txt"

PublishedDayOf(name) == name_prefix(name)[1]

\* C20: after a fetch cycle with keep-count N every episode the cycle deleted
\* was published before every episode it kept
C20_PrunesOldestPublished ==
    fetch.cleaned =>
        \A i \in 1..Len(fetch.removed), kept \in Episodes(feed_dir) :
            PublishedDayOf(fetch.removed[i]) < PublishedDayOf(kept)


----------------------------------------------------------------------------
(* A run of main: vocabulary *)

\* the entries of a feed that the run hands to download_episode
Handed(slug) == First(podcasts.rss[slug], fetch.download)
AudioHanded(slug) == SelectSeq(Handed(slug), LAMBDA e : e.audio)

InDir(f, name) == \E i \in 1..Len(f.dir.files) : f.dir.files[i] = name

\* the files of the events of one kind in the log of a feed, in order
Logged(f, ev) ==
    LET hits == SelectSeq(f.log, LAMBDA e : e.ev = ev)
    IN  [i \in 1..Len(hits) |-> hits[i].file]

Among(files, name) == \E i \in 1..Len(files) : files[i] = name

\* C21: download_episode for an entry whose file is already there writes the
\* entry's title and description to the row of the file (when sqlite
\* answers), does not request the audio and leaves the content and the
\* modification time of the file as they were
C21_ExistingFileKept ==
    [][Main(podcasts'.outcomes, podcasts'.db_ok) =>
         \A slug \in FeedSet : \A i \in 1..Len(AudioHanded(slug)) :
             LET e == AudioHanded(slug)[i]
                 name == EpisodeName(e.day)
                 before == podcasts.feeds[slug]
                 after == podcasts'.feeds[slug]
             IN  InDir(before, name) =>
                     /\ ~Among(Logged(after, "get"), name)
                     /\ after.content[name] = before.content[name]
                     /\ after.times[name] = before.times[name]
                     /\ podcasts'.db_ok =>
                            /\ after.rows[name].present
                            /\ after.rows[name].title = e.day
                            /\ after.rows[name].description = e.description
                     /\ ~podcasts'.db_ok => after.rows[name] = before.rows[name]]_vars

\* the first feed had the file and an older description of it; after the
\* run the row has the new description and the file is as it was
C21_Witness ==
    LET f == podcasts.feeds["news"]
    IN  /\ podcasts.ran /\ podcasts.db_ok
        /\ podcasts.rss["news"] = <<Entry(1)>>
        /\ f.content[EpisodeName(1)] = "existing"
        /\ InDir(f, EpisodeName(1))
        /\ f.rows[EpisodeName(1)].description = Entry(1).description
        /\ Logged(f, "get") = <<>>

\* C22: a row that holds a publication_date or a publication_datetime holds
\* the same one after a run of main
C22_PublicationTimeKept ==
    [][Main(podcasts'.outcomes, podcasts'.db_ok) =>
         \A slug \in FeedSet, name \in Names :
             LET before == podcasts.feeds[slug].rows[name]
                 after == podcasts'.feeds[slug].rows[name]
             IN  /\ before.publication_date # <<>> =>
                        after.publication_date = before.publication_date
                 /\ before.publication_datetime # <<>> =>
                        after.publication_datetime = before.publication_datetime]_vars

\* the download of the entry was tried in the run and raised
Failed(slug, name) == Among(Logged(podcasts.feeds[slug], "raise"), name)

\* C23: after a run, an episode whose download failed has neither a row nor
\* a file, and a feed directory that was not there and whose entries have no
\* audio enclosure is still not there
C23_NothingWithoutDownload ==
    podcasts.ran =>
        \A slug \in FeedSet :
            LET f == podcasts.feeds[slug]
            IN  /\ \A name \in Names :
                       Failed(slug, name) => ~f.rows[name].present /\ ~InDir(f, name)
                /\ AudioHanded(slug) = <<>> =>
                       /\ f.log = <<[ev |-> "cleanup", file |-> slug]>>
                       /\ \A name \in Names : f.content[name] \in {"", "existing"}

\* the files main has to request for a feed: the entries with audio, in feed
\* order, whose file was not there
Wanted(slug) ==
    LET names == [i \in 1..Len(AudioHanded(slug)) |-> EpisodeName(AudioHanded(slug)[i].day)]
    IN  SelectSeq(names, LAMBDA n : ~InDir(podcasts.feeds[slug], n))

\* C24: whatever downloads fail, main requests every wanted entry of every
\* feed in feed order, each error of download_episode reaches main and is
\* caught there, every feed is visited in order and its cleanup runs last
C24_FailureSkipsOneEpisode ==
    [][Main(podcasts'.outcomes, podcasts'.db_ok) =>
         /\ podcasts'.visited = FeedSlugs
         /\ \A slug \in FeedSet :
                LET after == podcasts'.feeds[slug]
                IN  /\ Logged(after, "get") = Wanted(slug)
                    /\ Logged(after, "cleanup") = <<slug>>
                    /\ after.log[Len(after.log)].ev = "cleanup"
                    /\ Logged(after, "caught") = Logged(after, "raise")
                    /\ Logged(after, "raise") =
                           SelectSeq(Wanted(slug), LAMBDA n :
                               \E day \in RunDays : /\ n = EpisodeName(day)
                                                     /\ podcasts'.outcomes[slug][day] # "ok")
                    /\ \A k \in 1..Len(after.log) :
                           after.log[k].ev = "raise" => after.log[k + 1].ev = "caught"]_vars

\* the first download of the first feed failed; its second entry and the
\* entry of the second feed were downloaded, and both cleanups ran
C24_Witness ==
    LET news == podcasts.feeds["news"]
        tech == podcasts.feeds["tech"]
    IN  /\ podcasts.ran
        /\ Logged(news, "get") = <<EpisodeName(2), EpisodeName(1)>>
        /\ Logged(news, "raise") = <<EpisodeName(2)>>
        /\ news.content[EpisodeName(1)] = "audio"
        /\ tech.content[EpisodeName(1)] = "audio"
        /\ Logged(tech, "cleanup") = <<"tech">>


----------------------------------------------------------------------------
(* The keys: vocabulary *)

\* what the configuration maps a key to
MappedTo(key) ==
    IF key \in loop_buttons THEN "loop"
    ELSE IF key \in DOMAIN podcast_buttons THEN "podcast"
    ELSE IF key \in spotify_buttons THEN "spotify"
    ELSE "none"

\* the events that are calls of the speaker changing what it does
SpeakerCalls ==
    {"device", "pause", "play", "repeat", "clear_queue", "add_share_link_to_queue",
     "seek", "next", "previous"}

\* the axes of the speaker calls of an action of a key
AxesOf(action) ==
    CASE action = "loop" -> {"loop"}
      [] action = "podcast" -> {"episode", "positions"}
      [] action = "spotify" -> {"spotify"}
      [] OTHER -> {}

\* the calls of one axis in the step, in order
CallsOn(axis) ==
    LET hits == SelectSeq(trace', LAMBDA e : e.axis = axis)
    IN  [k \in 1..Len(hits) |-> hits[k].ev]

\* the step is on_key_change for the key and the state
EntersWith(key, state) ==
    /\ trace' # <<>>
    /\ trace'[1] = Ev(IF state THEN "press" ELSE "release", "key", key)

\* C25: on_key_change calls the speaker only for a press of a mapped key, and
\* then only with the calls of the action the key is mapped to; a release and
\* a press of an unmapped key call nothing, query nothing, arm no timer
C25_KeysDoTheirAction ==
    [][\A key \in Keys, state \in BOOLEAN :
          EntersWith(key, state) =>
             /\ \A k \in 1..Len(trace') :
                    trace'[k].ev \in SpeakerCalls =>
                        state /\ trace'[k].axis \in AxesOf(MappedTo(key))
             /\ (~state \/ MappedTo(key) = "none") =>
                    /\ Len(trace') = 1
                    /\ Len(timers') = Len(timers)
                    /\ debounce_timer' = debounce_timer
                    /\ \A i \in 1..Len(timers) : timers'[i].st = timers[i].st
                    /\ dev' = dev
                    /\ cached_playback_info' = cached_playback_info
                    /\ fresh' = fresh]_vars

\* the loop key is released while the loop plays: nothing happens
C25_Witness ==
    /\ trace = <<Ev("release", "key", 0)>>
    /\ dev = PlayingDev(LoopUrl, 0)

\* C26: with the speaker answering, toggle_loop pauses exactly when the
\* device is PLAYING the loop URL; in every other case it calls play_uri of
\* the loop URL, sets repeat and calls play; so the press after a press that
\* started the loop pauses it
C26_LoopToggles ==
    [][\A key \in loop_buttons, fault \in Faults :
          (EntersWith(key, TRUE) /\ OnKeyChange(key, TRUE, TRUE, fault)) =>
             IF dev.state = "PLAYING" /\ dev.uri = LoopUrl
             THEN /\ CallsOn("loop") = <<"pause">>
                  /\ dev' = [dev EXCEPT !.state = "PAUSED_PLAYBACK"]
             ELSE /\ CallsOn("loop") = <<"device", "repeat", "play">>
                  /\ \E k \in 1..Len(trace') : trace'[k] = Ev("repeat", "loop", 1)
                  /\ dev'.uri = LoopUrl /\ dev'.state = "PLAYING"]_vars

\* the second of two presses: the timer of the first is there, the loop it
\* started is paused
C26_Witness ==
    /\ Len(timers) = 2
    /\ timers[1].axis = "state" /\ timers[2].axis = "state"
    /\ trace # <<>> /\ trace[1] = Ev("press", "key", 0)
    /\ HasEvent("pause", "loop")
    /\ dev.uri = LoopUrl /\ dev.state = "PAUSED_PLAYBACK"

\* the save, the calls of the Spotify branch, the forced refresh and the
\* repaint of the step, in order
SpotifyLog ==
    LET hits == SelectSeq(trace', LAMBDA e : \/ e.ev \in {"save", "refresh"}
                                              \/ e.axis = "spotify"
                                              \/ (e.ev = "paint" /\ e.axis = "position"))
    IN  [k \in 1..Len(hits) |-> hits[k].ev]

\* C28: a press of a Spotify key saves the position, then calls clear_queue,
\* add_share_link_to_queue and play_from_queue once each in that order, then
\* refreshes the cache by force, repaints and arms the refresh timer; when
\* one of the three calls raises, the later ones, the refresh, the repaint
\* and the timer are left out
C28_SpotifySequence ==
    [][\A key \in spotify_buttons, online \in BOOLEAN, fault \in Faults :
          (EntersWith(key, TRUE) /\ OnKeyChange(key, TRUE, online, fault)) =>
             LET raising == IF online THEN fault ELSE 1
             IN  IF raising = 0
                 THEN /\ SpotifyLog = <<"save">> \o SpotifyCalls \o <<"refresh", "paint">>
                      /\ dev' = PlayingDev(SpotifyUri, 0)
                      /\ Len(timers') = Len(timers) + 1
                 ELSE /\ SpotifyLog = <<"save">> \o SubSeq(SpotifyCalls, 1, raising - 1)
                                              \o <<"raise">>
                      /\ Len(timers') = Len(timers)
                      /\ raising <= Len(SpotifyCalls) => dev' = dev]_vars

\* add_share_link_to_queue raised after clear_queue was called
C28_Witness ==
    /\ trace # <<>> /\ trace[1] = Ev("press", "key", 2)
    /\ HasEvent("clear_queue", "spotify")
    /\ \E k \in 1..Len(trace) : trace[k] = Ev("raise", "spotify", 2)
    /\ dev.uri # SpotifyUri


\* the callback of a track skip that returned did one skip, then the
\* refresh and the repaint
OneSkipEach ==
    \A i \in 1..Len(timers) :
       (timers[i].axis = "skip" /\ JustFinished(i)) =>
           timers[i].log = <<"device", "refresh", "paint">>

\* C27: while the cached URI is a Spotify one, a turn of dial 2 arms (or
\* with no delay runs) one track skip, next for a positive and previous for a
\* negative delta of any size, each fired action sends exactly one skip, and
\* the turn leaves pending_episode_index, pending_episode_slug and the
\* episode timer alone and starts no episode change
C27_SpotifyTurnSkips ==
    /\ []OneSkipEach
    /\ [][/\ \A delta \in SkipDeltas \ {0} :
               (is_spotify_uri(cached_playback_info.uri) /\ DialTurnSkip(delta, TRUE)) =>
                  /\ pending_episode_index' = pending_episode_index
                  /\ pending_episode_slug' = pending_episode_slug
                  /\ debounce_timer'["episode"] = debounce_timer["episode"]
                  /\ \A i \in 1..Len(timers) :
                         timers[i].axis = "episode" => timers'[i].st = timers[i].st
                  /\ CallsOn("episode") = <<>>
                  /\ IF dial_debounce_seconds <= 0
                     THEN CallsOn("skip") = <<IF delta > 0 THEN "next" ELSE "previous">>
                     ELSE /\ CallsOn("skip") = <<>>
                          /\ Len(timers') = Len(timers) + 1
                          /\ timers'[Len(timers')].axis = "skip"
                          /\ timers'[Len(timers')].val = IF delta > 0 THEN 1 ELSE -1
          /\ \A i \in 1..Len(timers) :
               (timers[i].axis = "skip" /\ timers[i].pc = "call" /\ TimerStep(i, TRUE, FALSE)) =>
                  /\ CallsOn("skip") = <<IF timers[i].val > 0 THEN "next" ELSE "previous">>
                  /\ CallsOn("episode") = <<>>
                  /\ pending_episode_index' = pending_episode_index
                  /\ pending_episode_slug' = pending_episode_slug]_vars

\* an episode change is pending and Spotify has come on: the turn back has
\* armed a skip to the previous track and the pending episode is still there
C27_Witness ==
    /\ is_spotify_uri(cached_playback_info.uri)
    /\ pending_episode_index # None
    /\ debounce_timer["skip"] # 0
    /\ timers[debounce_timer["skip"]].st = "waiting"
    /\ timers[debounce_timer["skip"]].val = -1
    /\ debounce_timer["episode"] # 0
    /\ timers[debounce_timer["episode"]].st = "waiting"


\* every timer created has been cancelled or has run to its end
AllDone == \A i \in 1..Len(timers) : timers[i].st \in {"cancelled", "finished"}

\* C29: once every volume timer has fired and finished, the device volume is
\* what the deltas of all turns give, applied in arrival order and clamped to
\* 0..100 at each step, from the volume before the first turn
C29_NoTurnLost == AllDone => volume = turned

\* C30: while the timer of a debounced axis is armed and has not fired, the
\* pending value of the axis is the value the timer will apply
C30_PendingWhileArmed ==
    \A axis \in DebouncedAxes :
       LET i == debounce_timer[axis]
       IN  (i # 0 /\ timers[i].st = "waiting") => Pending(axis) = timers[i].val

----------------------------------------------------------------------------
(* Turns that schedule nothing, the cache, the order of the episodes *)

\* the timer global of the axis holds a timer that has not fired
Armed(axis) == debounce_timer[axis] # 0 /\ timers[debounce_timer[axis]].st = "waiting"

\* the step leaves that timer armed, with the value it will apply
StillArmed(axis) ==
    /\ debounce_timer'[axis] = debounce_timer[axis]
    /\ timers'[debounce_timer[axis]].st = "waiting"
    /\ timers'[debounce_timer[axis]].val = timers[debounce_timer[axis]].val

\* C31: a turn of dial 1 or dial 2 that schedules nothing (duration 0; no
\* podcast detected; no local episode) leaves the action its axis has armed
\* armed, with its value
C31_UnscheduledTurnKeepsArmed ==
    [][\A delta \in TurnDeltas \ {0}, online \in BOOLEAN :
          /\ (Armed("seek") /\ DialTurnSeek(delta, online) /\ Len(timers') = Len(timers))
                => StillArmed("seek")
          /\ (Armed("episode") /\ DialTurnEpisode(delta, online, FALSE)
                                /\ Len(timers') = Len(timers))
                => StillArmed("episode")]_vars

\* C32: the cache never goes back to an older answer of the device (the
\* number of the query whose answer it holds never falls), and
\* last_playback_fetch never moves backwards
C32_NoOlderSnapshot ==
    [][/\ refresh'.cached >= refresh.cached
       /\ refresh'.last_playback_fetch >= refresh.last_playback_fetch]_vars

\* C33: a call of get_playback_info whose track query or transport query
\* raises writes neither the cache nor last_playback_fetch and returns the
\* cache as it is; the queries themselves write nothing, so the cache only
\* ever gets the track and the state of one call together
C33_FailedQueryKeepsCache ==
    [][\A th \in Threads, online \in BOOLEAN :
          (refresh.calls[th].pc \in {"track", "transport"} /\ GetPlaybackInfoStep(th, online)) =>
             /\ cached_playback_info' = cached_playback_info
             /\ refresh'.last_playback_fetch = refresh.last_playback_fetch
             /\ refresh'.cached = refresh.cached
             /\ ~online =>
                   /\ refresh'.calls[th] = NoCall
                   /\ trace' = <<Ev("raise", "cache", refresh.calls[th].query),
                                 Ev("return", "cache", refresh.cached)>>]_vars

\* the transport query of the second call raised after its track query was
\* answered with another track than the cache holds
C33_Witness ==
    /\ trace = <<Ev("raise", "cache", 2), Ev("return", "cache", 1)>>
    /\ cached_playback_info.uri # dev.uri
    /\ refresh.cached = 1
    /\ refresh.last_playback_fetch = 1

\* C34: with k >= 1 local episodes a press of a podcast key goes to index
\* podcast_state[slug] mod k, that is 0 at first, the index after the one of
\* the press before, and 0 again after k - 1, and keeps that index + 1, a
\* number within 1..k; with the speaker answering the episode of that index
\* is what plays; with no local episode the press calls nothing on the
\* speaker and leaves podcast_state as it is
C34_PressesCycle ==
    /\ [](\A slug \in Podcasts : podcast_state[slug] \in 0..Len(library[slug]))
    /\ [][\A key \in DOMAIN podcast_buttons, online \in BOOLEAN :
             (EntersWith(key, TRUE) /\ OnKeyChange(key, TRUE, online, 0)) =>
                LET slug == podcast_buttons[key]
                    k == Len(library[slug])
                IN  IF k = 0
                    THEN /\ \A n \in 1..Len(trace') : trace'[n].ev \notin SpeakerCalls
                         /\ podcast_state' = podcast_state
                         /\ dev' = dev
                    ELSE LET played == podcast_state[slug] % k
                         IN  /\ podcast_state'[slug] = played + 1
                             /\ podcast_state'[slug] \in 1..k
                             /\ online =>
                                   /\ \E n \in 1..Len(trace') :
                                         trace'[n] = Ev("device", "episode", played)
                                   /\ dev'.uri = EpisodeUrl(slug, library[slug][played + 1])]_vars

\* the third press: the second had started the last episode, which played
\* on for some seconds; its position is saved and the first episode plays
C34_Witness ==
    /\ trace # <<>> /\ trace[1] = Ev("press", "key", 1)
    /\ episode_positions[EpisodeUrl("news", EpisodeFiles[Len(EpisodeFiles)])] = ScrubStep
    /\ \E n \in 1..Len(trace) : trace[n] = Ev("device", "episode", 0)
    /\ dev.uri = EpisodeUrl("news", EpisodeFiles[1])
    /\ podcast_state["news"] = 1

\* new_idx and episode_index after "if < 0: len(files) - 1, elif >= len(files): 0"
Wrapped(idx, count) == IF idx < 0 THEN count - 1 ELSE IF idx >= count THEN 0 ELSE idx

\* the step is a turn of dial 2 that went on to set the pending episode
SetsEpisode ==
    /\ trace' # <<>>
    /\ trace'[1].ev \in {"paint", "blank"}
    /\ pending_episode_slug' # NoSlug \/ HasEvent("clear", "episode")'

\* C35: a turn of dial 2 by any delta sets pending_episode_index, and arms
\* its action, with an index within 0..len(files)-1 of the files listed in
\* the turn, an index below 0 replaced by the last and one past the end by
\* 0; the episode an action plays has an index within the list as it is when
\* the action runs, an index past its end replaced by 0
C35_IndexWithinCatalog ==
    [][/\ \A delta \in SkipDeltas \ {0}, online \in BOOLEAN, raises \in BOOLEAN :
             (SetsEpisode /\ DialTurnEpisode(delta, online, raises)) =>
                LET slug == detect_podcast_uri(cached_playback_info.uri)
                    count == Len(library[slug])
                IN  /\ dial_debounce_seconds > 0 =>
                          /\ pending_episode_index' \in 0..(count - 1)
                          /\ timers'[Len(timers')].val = pending_episode_index'
                          /\ timers'[Len(timers')].slug = slug
                    /\ (pending_episode_index # None /\ pending_episode_slug = slug
                           /\ dial_debounce_seconds > 0)
                          => pending_episode_index' = Wrapped(pending_episode_index + delta, count)
                    /\ \A n \in 1..Len(trace') :
                          (trace'[n].ev = "device" /\ trace'[n].axis = "episode")
                             => trace'[n].val \in 0..(count - 1)
       /\ \A i \in 1..Len(timers), online \in BOOLEAN :
             (timers[i].axis = "episode" /\ timers[i].pc = "call" /\ TimerStep(i, online, FALSE)) =>
                LET files == library[timers[i].slug]
                IN  \A n \in 1..Len(trace') :
                       (trace'[n].axis = "episode" /\ trace'[n].ev \in {"device", "raise"})
                          => /\ trace'[n].val = Wrapped(timers[i].val, Len(files))
                             /\ trace'[n].val \in 0..(Len(files) - 1)
                             /\ trace'[n].ev = "device"
                                   => dev'.uri = EpisodeUrl(timers[i].slug, files[trace'[n].val + 1])
      ]_vars

\* the action armed for the second of two episodes runs after the second was
\* pruned: it plays the first
C35_Witness ==
    \E i \in 1..Len(timers) :
       /\ timers[i].axis = "episode"
       /\ timers[i].st = "running"
       /\ timers[i].val = 1
       /\ Len(library[timers[i].slug]) = 1
       /\ \E n \in 1..Len(trace) : trace[n] = Ev("device", "episode", 0)
       /\ dev.uri = EpisodeUrl(timers[i].slug, library[timers[i].slug][1])

C37_ValuesWithinRange ==
    /\ [](pending_volume = None \/ pending_volume \in 0..100)
    /\ [](/\ deck.brightness \in 0..100
          /\ deck.current_brightness_ref = deck.brightness)
    /\ [][/\ \A delta \in WideVolumeDeltas, online \in BOOLEAN :
                (/\ pending_volume' # None
                 /\ pending_volume # None \/ online
                 /\ DialTurnVolume(delta, online)) =>
                    pending_volume' =
                       Max(0, Min(100, effective_value(pending_volume, volume) + delta))
          /\ \A delta \in SeekDeltas, online \in BOOLEAN :
                (pending_scrub_position' # None /\ DialTurnSeek(delta, online)) =>
                    LET playback == get_playback_info(Mem(online), FALSE).cache
                        current_pos == effective_value(pending_scrub_position, playback.position)
                    IN  IF playback.duration > 0
                        THEN /\ pending_scrub_position' \in 0..playback.duration
                             /\ pending_scrub_position' =
                                   Max(0, Min(playback.duration, current_pos + delta * ScrubStep))
                        ELSE pending_scrub_position' = pending_scrub_position
          /\ \A delta \in BrightnessDeltas, answers \in BOOLEAN :
                DialTurnBrightness(delta, answers) =>
                    /\ answers => deck'.brightness =
                                     Max(0, Min(100, deck.brightness + delta * BrightnessStep))
                    /\ ~answers => deck' = deck
                    /\ \A n \in 1..Len(trace') :
                          trace'[n].ev = "brightness" => trace'[n].val = deck'.current_brightness_ref
         ]_vars

\* the brightness dial turned up at full brightness: 100 is sent again
C37_Witness ==
    /\ trace = <<Ev("log", "deck", 100), Ev("brightness", "deck", 100)>>
    /\ deck.brightness = 100
    /\ deck.current_brightness_ref = 100

\* the refresh timers that wait to fire
ArmedRefreshes(ts) == {i \in DOMAIN ts : ts[i].axis = "state" /\ ts[i].st = "waiting"}

\* the step starts a refresh timer, keeps it in state_refresh_timer and
\* cancels the one that waited
ArmsRefresh ==
    /\ Len(timers') = Len(timers) + 1
    /\ ArmedRefreshes(timers') = {Len(timers')}
    /\ debounce_timer'["state"] = Len(timers')
    /\ \A i \in ArmedRefreshes(timers) : timers'[i].st = "cancelled"

\* the step starts and cancels no timer
ArmsNothing ==
    /\ Len(timers') = Len(timers)
    /\ debounce_timer' = debounce_timer
    /\ \A i \in DOMAIN timers : timers'[i].st = timers[i].st

\* the step is not on_key_change and fires no timer
EntersNoKey ==
    /\ \A k \in DOMAIN trace' : trace'[k].axis # "key"
    /\ \A i \in DOMAIN timers : timers[i].st = "waiting" => timers'[i].st # "running"

\* a call of the key's branch raises before schedule_state_refresh is reached
PressRaises(key, online, fault) ==
    \/ key_action(key, TRUE) = "podcast" /\ fault # 0
    \/ key_action(key, TRUE) = "spotify" /\ (fault # 0 \/ ~online)

\* at most one refresh waits, and it is the one state_refresh_timer holds
OneRefreshArmed ==
    /\ Cardinality(ArmedRefreshes(timers)) <= 1
    /\ \A i \in ArmedRefreshes(timers) : debounce_timer["state"] = i

\* refresh_state runs: the forced refresh, then the repaint; a speaker that
\* does not answer leaves the cache as it is, and the callback ends without
\* touching the device, the pending values or the other timers
RefreshFires ==
    \A i \in DOMAIN timers, online \in BOOLEAN :
        (/\ timers[i].axis = "state"
         /\ timers[i].st = "running"
         /\ TimerStep(i, online, FALSE)) =>
            /\ timers'[i].st = "finished"
            /\ timers'[i].log = <<"refresh", "paint">>
            /\ cached_playback_info' = IF online THEN dev ELSE cached_playback_info
            /\ dev' = dev
            /\ <<pending_volume, pending_scrub_position, pending_episode_index>>' =
                  <<pending_volume, pending_scrub_position, pending_episode_index>>
            /\ debounce_timer' = debounce_timer
            /\ \A k \in DOMAIN timers \ {i} : timers'[k].st = timers[k].st

====
